---- MODULE Spec2Model ----
(***************************************************************************)
(* FinOps console plugin: the FinOps tab of a workload.  The repository    *)
(* holds four revisions of the same widget:                                *)
(*   "limit"    src/src/components/FinOpsTab.tsx lines 1-395               *)
(*              (memory limit baseline, OK/WARNING/CRITICAL status)        *)
(*   "part_003" src/unnamed/part_003 (limit baseline, current + 7d max)    *)
(*   "part_002" src/unnamed/part_002 (request baseline, threshold colors)  *)
(*   "request"  src/src/components/FinOpsTab.tsx lines 397-1037            *)
(*              (request baseline, memory + CPU, threshold colors)         *)
(*                                                                         *)
(* JavaScript values.  null / undefined is the empty tuple.  A number is   *)
(* a pair <<n, d>>: the rational n/d when d > 0, and a non-finite double   *)
(* when d = 0 (NaN = <<0,0>>, Infinity = <<1,0>>).  Arithmetic is exact;   *)
(* within the bounds below every quotient and every x*100 that is rounded  *)
(* is a double without rounding error at the .5 boundary, and no division  *)
(* of finite values overflows.                                             *)
(***************************************************************************)
EXTENDS Integers, Sequences, FiniteSets, TLC

VARIABLES
    settings,   \* the imported finops-settings.json document (read-only)
    call,       \* the last donut rendered: its inputs and what was derived
    rev,        \* the revision of the widget that is mounted
    resp,       \* per polled query, the latest payload of usePrometheusPoll
    rows,       \* the rows memo of the last render
    poll        \* per polled query, the error, the loading flag and the tick

vars == <<settings, call, rev, resp, rows, poll>>

---------------------------------------------------------------------------
(* Bounds of the model *)

\* Sample values are -1 and 0..MaxVal (in the limit revision, tenths of
\* them): enough for the ratios 0.1, 0.5, 0.7, 0.9, 1 and above.
MaxVal == 10

\* The responses held at one time weigh at most MaxPoints: a response
\* weighs the number of its result entries, and an empty one weighs one.
MaxPoints == 2

---------------------------------------------------------------------------
(* Numbers *)

Null == <<>>
NaN == <<0, 0>>
Infinity == <<1, 0>>
Num(n) == <<n, 1>>
Zero == Num(0)
One == Num(1)

NumberIsFinite(x) == IF x = Null THEN FALSE ELSE x[2] # 0

\* Comparisons of finite numbers (d > 0 on both sides).
Lt(a, b) == a[1] * b[2] < b[1] * a[2]
Ge(a, b) == ~Lt(a, b)
Gt(a, b) == Lt(b, a)
NumEq(a, b) == a[1] * b[2] = b[1] * a[2]

\* x > 0 for any double: NaN compares false, Infinity is positive.
GtZero(x) == x[1] > 0

\* a / b for finite a and finite b > 0.
Div(a, b) == <<a[1] * b[2], a[2] * b[1]>>
Sub(a, b) == <<a[1] * b[2] - b[1] * a[2], a[2] * b[2]>>
Mul(a, b) == <<a[1] * b[1], a[2] * b[2]>>

MathMax(a, b) == IF Lt(a, b) THEN b ELSE a
MathMin(a, b) == IF Lt(b, a) THEN b ELSE a

\* Math.round: the nearest integer, halves towards +Infinity.
MathRound(x) == (2 * x[1] + x[2]) \div (2 * x[2])

RECURSIVE Gcd(_, _)
Gcd(a, b) == IF b = 0 THEN a ELSE Gcd(b, a % b)

Abs(n) == IF n < 0 THEN -n ELSE n

\* The same rational in lowest terms.
Reduce(x) ==
    LET g == Gcd(Abs(x[1]), x[2])
    IN IF g = 0 THEN x ELSE <<x[1] \div g, x[2] \div g>>

clamp01(x) == MathMax(Zero, MathMin(One, x))

pct(x) == MathRound(Mul(x, Num(100)))

\* a ?? b
Coalesce(a, b) == IF a = Null THEN b ELSE a

---------------------------------------------------------------------------
(* Texts: a label and the number interpolated into it. *)

Text(label, n) == [label |-> label, n |-> n]
PctUsed(n) == Text("% used", n)
Pct(n) == Text("%", n)
PctOverReserved(n) == Text("% over-reserved", n)
NoRequest == Text("No request", 0)
NoLimit == Text("No limit", 0)
NA == Text("N/A", 0)

---------------------------------------------------------------------------
(* Settings document (finops-settings.json, imported once at load).        *)
(* A missing field or a missing parent object is Null.                     *)

Str(s) == <<s>>

DEFAULT_GREEN == Str("#3E8635")
DEFAULT_RED == Str("#C9190B")
DEFAULT_YELLOW == Str("#F0AB00")

ThresholdDocs ==
    { Null,
      [redBelow |-> <<1, 10>>, yellowBelow |-> <<1, 2>>],
      [redBelow |-> Zero, yellowBelow |-> One],
      [redBelow |-> Null, yellowBelow |-> <<7, 10>>] }

ColorDocs ==
    { Null,
      [green |-> Str("#3E8635"), yellow |-> Str("#F0AB00"), red |-> Str("#C9190B")],
      [green |-> Str("#00AA00"), yellow |-> Null, red |-> Str("#AA0000")] }

SettingsDocs ==
    [ enableThresholdColors : {<<TRUE>>, <<FALSE>>, Null},
      thresholds : ThresholdDocs,
      colors : ColorDocs ]

\* settings?.colors?.<field>, settings?.thresholds?.<field>
OptColor(field) ==
    IF settings.colors = Null THEN Null ELSE settings.colors[field]
OptThreshold(field) ==
    IF settings.thresholds = Null THEN Null ELSE settings.thresholds[field]

\* Boolean(settings?.enableThresholdColors)
ThresholdEnabled == settings.enableThresholdColors = <<TRUE>>

---------------------------------------------------------------------------
(* Request-baseline revision: color, donut model, donut                    *)

\* Mutant: r <= redBelow in place of r < redBelow.
getDonutColor_inclusive(usedRatio, enabled) ==
    LET green == Coalesce(OptColor("green"), DEFAULT_GREEN)
        red == Coalesce(OptColor("red"), DEFAULT_RED)
        yellow == Coalesce(OptColor("yellow"), DEFAULT_YELLOW)
    IN  IF ~enabled \/ usedRatio = Null \/ ~NumberIsFinite(usedRatio)
        THEN green
        ELSE LET r == clamp01(usedRatio)
                 redBelow == Coalesce(OptThreshold("redBelow"), <<1, 10>>)
                 yellowBelow == Coalesce(OptThreshold("yellowBelow"), <<1, 2>>)
             IN  IF ~Lt(redBelow, r) THEN red
                 ELSE IF Lt(r, yellowBelow) THEN yellow
                 ELSE green

\* Mutant: the enable flag is not looked at.
getDonutColor_flagIgnored(usedRatio, enabled) ==
    LET green == Coalesce(OptColor("green"), DEFAULT_GREEN)
        red == Coalesce(OptColor("red"), DEFAULT_RED)
        yellow == Coalesce(OptColor("yellow"), DEFAULT_YELLOW)
    IN  IF usedRatio = Null \/ ~NumberIsFinite(usedRatio)
        THEN green
        ELSE LET r == clamp01(usedRatio)
                 redBelow == Coalesce(OptThreshold("redBelow"), <<1, 10>>)
                 yellowBelow == Coalesce(OptThreshold("yellowBelow"), <<1, 2>>)
             IN  IF Lt(r, redBelow) THEN red
                 ELSE IF Lt(r, yellowBelow) THEN yellow
                 ELSE green

getDonutColor(usedRatio, enabled) ==
    LET green == Coalesce(OptColor("green"), DEFAULT_GREEN)
        red == Coalesce(OptColor("red"), DEFAULT_RED)
        yellow == Coalesce(OptColor("yellow"), DEFAULT_YELLOW)
    IN  IF ~enabled \/ usedRatio = Null \/ ~NumberIsFinite(usedRatio)
        THEN green
        ELSE LET r == clamp01(usedRatio)
                 redBelow == Coalesce(OptThreshold("redBelow"), <<1, 10>>)
                 yellowBelow == Coalesce(OptThreshold("yellowBelow"), <<1, 2>>)
             IN  IF Lt(r, redBelow) THEN red
                 ELSE IF Lt(r, yellowBelow) THEN yellow
                 ELSE green

\* Mutant: requestVal >= 0 in place of requestVal > 0.
HasBaseline_nonNegative(requestVal) ==
    requestVal # Null /\ NumberIsFinite(requestVal) /\ requestVal[1] >= 0

\* const hasBaseline, ratio and badgeText of buildDonutModel.
HasBaseline(requestVal) ==
    requestVal # Null /\ NumberIsFinite(requestVal) /\ GtZero(requestVal)

\* Mutant: Number.isFinite(maxVal) is not checked.
Ratio_maxNotChecked(maxVal, requestVal) ==
    IF HasBaseline(requestVal) /\ maxVal # Null
    THEN Div(maxVal, requestVal) ELSE Null

Ratio(maxVal, requestVal) ==
    IF HasBaseline(requestVal) /\ maxVal # Null /\ NumberIsFinite(maxVal)
    THEN Div(maxVal, requestVal) ELSE Null

\* Mutant: the percentage of the badge is not clamped.
BadgeText_unclamped(hasBaseline, ratio) ==
    IF hasBaseline /\ ratio # Null /\ NumberIsFinite(ratio)
    THEN PctUsed(pct(ratio)) ELSE NoRequest

BadgeText(hasBaseline, ratio) ==
    IF hasBaseline /\ ratio # Null /\ NumberIsFinite(ratio)
    THEN PctUsed(pct(clamp01(ratio))) ELSE NoRequest

\* Mutant: 1 - ratio without Math.max(0, ...).
OverReserved_unfloored(hasBaseline, ratio) ==
    IF hasBaseline /\ ratio # Null /\ NumberIsFinite(ratio)
    THEN Sub(One, ratio) ELSE Null

\* const overReserved of buildDonutModel.
OverReserved(hasBaseline, ratio) ==
    IF hasBaseline /\ ratio # Null /\ NumberIsFinite(ratio)
    THEN MathMax(Zero, Sub(One, ratio)) ELSE Null

buildDonutModel(maxVal, requestVal) ==
    LET hasBaseline == HasBaseline(requestVal)
        ratio == Ratio(maxVal, requestVal)
        ratioClamped ==
            IF ratio # Null /\ NumberIsFinite(ratio) THEN clamp01(ratio) ELSE Null
        thresholdEnabled == ThresholdEnabled
        color == getDonutColor(ratio, thresholdEnabled)
        badgeText == BadgeText(hasBaseline, ratio)
        \* the local const overReserved, kept in the record of the model
        overReserved == OverReserved(hasBaseline, ratio)
        overReservedText ==
            IF overReserved # Null THEN Pct(pct(overReserved)) ELSE NA
    IN  [ hasBaseline |-> hasBaseline, ratio |-> ratio,
          ratioClamped |-> ratioClamped, badgeText |-> badgeText,
          overReserved |-> overReserved,
          overReservedText |-> overReservedText, color |-> color ]

\* Mutant: the progress arc is drawn for ratio >= 0.
DonutBase_arcAtZero(badgeText, badgeBorderColor, ringRatio, ringColor, overReservedText) ==
    LET showProgress == ringRatio # Null /\ NumberIsFinite(ringRatio)
        ratio == IF showProgress THEN clamp01(ringRatio) ELSE Zero
    IN  [ showProgress |-> showProgress, ratio |-> ratio,
          dot |-> showProgress /\ NumEq(ratio, Zero),
          arc |-> showProgress /\ Ge(ratio, Zero),
          badgeText |-> badgeText, badgeBorderColor |-> badgeBorderColor,
          ringColor |-> ringColor, overReservedText |-> overReservedText ]

\* What DonutBase draws on top of the track: the ratio of the arc, and
\* which of the zero-dot and the progress arc is rendered.
DonutBase(badgeText, badgeBorderColor, ringRatio, ringColor, overReservedText) ==
    LET showProgress == ringRatio # Null /\ NumberIsFinite(ringRatio)
        ratio == IF showProgress THEN clamp01(ringRatio) ELSE Zero
    IN  [ showProgress |-> showProgress, ratio |-> ratio,
          dot |-> showProgress /\ NumEq(ratio, Zero),
          arc |-> showProgress /\ Gt(ratio, Zero),
          badgeText |-> badgeText, badgeBorderColor |-> badgeBorderColor,
          ringColor |-> ringColor, overReservedText |-> overReservedText ]

TOKENS_border == Str("var(--pf-v5-global--BorderColor--100)")

\* DonutRAM and DonutCPU: the same model, different titles and units.
DonutRAM(maxGiB, requestGiB) ==
    LET m == buildDonutModel(maxGiB, requestGiB)
    IN  [ m |-> m,
          donut |-> DonutBase(m.badgeText,
                              IF m.hasBaseline THEN m.color ELSE TOKENS_border,
                              IF m.hasBaseline THEN m.ratioClamped ELSE Null,
                              m.color, m.overReservedText) ]

---------------------------------------------------------------------------
(* part_002: request baseline, colors read straight from the settings      *)

\* Reading a field of a missing parent object throws.
TypeError == Str("TypeError")

\* settings.colors.<field> and settings.thresholds.<field>, unguarded.
RawColor(field) ==
    IF settings.colors = Null THEN TypeError ELSE settings.colors[field]

\* r < t where t may be undefined (the comparison is then false).
LtOpt(r, t) == IF t = Null THEN FALSE ELSE Lt(r, t)

\* Mutant: the ratio is compared with the thresholds without clamp01.
getDonutColor_p2_unclamped(usedRatio, hasRequest) ==
    IF ~hasRequest \/ usedRatio = Null \/ ~NumberIsFinite(usedRatio)
    THEN RawColor("green")
    ELSE IF settings.enableThresholdColors # <<TRUE>>
    THEN RawColor("green")
    ELSE IF settings.thresholds = Null THEN TypeError
    ELSE IF LtOpt(usedRatio, settings.thresholds.redBelow) THEN RawColor("red")
    ELSE IF LtOpt(usedRatio, settings.thresholds.yellowBelow)
    THEN RawColor("yellow")
    ELSE RawColor("green")

getDonutColor_p2(usedRatio, hasRequest) ==
    IF ~hasRequest \/ usedRatio = Null \/ ~NumberIsFinite(usedRatio)
    THEN RawColor("green")
    ELSE IF settings.enableThresholdColors # <<TRUE>>
    THEN RawColor("green")
    ELSE IF settings.thresholds = Null THEN TypeError
    ELSE LET r == clamp01(usedRatio)
         IN  IF LtOpt(r, settings.thresholds.redBelow) THEN RawColor("red")
             ELSE IF LtOpt(r, settings.thresholds.yellowBelow)
             THEN RawColor("yellow")
             ELSE RawColor("green")

\* The fields the rows memo derives for one container.
Row_p2(container, requestGiB, maxGiB, currentGiB) ==
    LET hasRequest == requestGiB # Null /\ GtZero(requestGiB)
        usedRatio ==
            IF hasRequest /\ maxGiB # Null THEN Div(maxGiB, requestGiB) ELSE Null
        overReservedRatio ==
            IF usedRatio # Null THEN MathMax(Zero, Sub(One, usedRatio)) ELSE Null
        overReservedText ==
            IF overReservedRatio # Null THEN Pct(pct(overReservedRatio)) ELSE NA
    IN  [ container |-> container, requestGiB |-> requestGiB,
          maxGiB |-> maxGiB, currentGiB |-> currentGiB,
          hasRequest |-> hasRequest, usedRatio |-> usedRatio,
          overReserved |-> overReservedRatio,
          overReservedText |-> overReservedText ]

Donut_p2(usedRatio, overReservedText, hasRequest) ==
    LET showProgress ==
            hasRequest /\ usedRatio # Null /\ NumberIsFinite(usedRatio)
        ratio == IF showProgress THEN clamp01(usedRatio) ELSE Zero
        donutColor == getDonutColor_p2(usedRatio, hasRequest)
    IN  [ showProgress |-> showProgress, ratio |-> ratio,
          dot |-> showProgress /\ NumEq(ratio, Zero),
          arc |-> showProgress /\ Gt(ratio, Zero),
          badgeText |-> IF hasRequest /\ usedRatio # Null
                        THEN PctUsed(pct(clamp01(usedRatio))) ELSE NoRequest,
          badgeBorderColor |-> IF hasRequest THEN donutColor ELSE TOKENS_border,
          ringColor |-> donutColor, overReservedText |-> overReservedText ]

---------------------------------------------------------------------------
(* part_003: limit baseline, always green                                  *)

GREEN == Str("#3E8635")

Row_p3(container, limitGiB, maxGiB, currentGiB) ==
    LET hasLimit == limitGiB # Null /\ GtZero(limitGiB)
        usedRatio ==
            IF hasLimit /\ maxGiB # Null THEN Div(maxGiB, limitGiB) ELSE Null
        overReservedRatio ==
            IF usedRatio # Null /\ NumberIsFinite(usedRatio)
            THEN MathMax(Zero, Sub(One, usedRatio)) ELSE Null
        overReservedText ==
            IF overReservedRatio # Null
            THEN PctOverReserved(pct(overReservedRatio)) ELSE NA
    IN  [ container |-> container, limitGiB |-> limitGiB,
          maxGiB |-> maxGiB, currentGiB |-> currentGiB,
          hasLimit |-> hasLimit, usedRatio |-> usedRatio,
          overReserved |-> overReservedRatio,
          overReservedText |-> overReservedText ]

Donut_p3(usedRatio, overReservedText, hasLimit) ==
    LET showProgress ==
            hasLimit /\ usedRatio # Null /\ NumberIsFinite(usedRatio)
        ratio == IF showProgress THEN clamp01(usedRatio) ELSE Zero
    IN  [ showProgress |-> showProgress, ratio |-> ratio,
          dot |-> showProgress /\ NumEq(ratio, Zero),
          arc |-> showProgress /\ Gt(ratio, Zero),
          badgeText |-> IF hasLimit /\ usedRatio # Null
                        THEN PctUsed(pct(clamp01(usedRatio))) ELSE NoLimit,
          badgeBorderColor |-> IF hasLimit THEN GREEN ELSE Str("#d2d2d2"),
          ringColor |-> GREEN, overReservedText |-> overReservedText ]

---------------------------------------------------------------------------
(* Limit-baseline revision: fixed-boundary status                          *)

\* 1024 ** 3
BytesPerGiB == 1073741824

bytesToGiB(b) == Reduce(<<b[1], b[2] * BytesPerGiB>>)

getRatioColor(ratio) ==
    IF ratio = Null THEN Str("#6a6e73")
    ELSE IF Ge(ratio, <<9, 10>>) THEN Str("#c9190b")
    ELSE IF Ge(ratio, <<7, 10>>) THEN Str("#f0ab00")
    ELSE Str("#3e8635")

\* Mutant: ratio > 0.9 in place of ratio >= 0.9.
getStatusLabel_strict(ratio) ==
    IF ratio = Null THEN [text |-> "N/A", color |-> Str("#6a6e73")]
    ELSE IF Gt(ratio, <<9, 10>>) THEN [text |-> "CRITICAL", color |-> Str("#c9190b")]
    ELSE IF Ge(ratio, <<7, 10>>) THEN [text |-> "WARNING", color |-> Str("#f0ab00")]
    ELSE [text |-> "OK", color |-> Str("#3e8635")]

getStatusLabel(ratio) ==
    IF ratio = Null THEN [text |-> "N/A", color |-> Str("#6a6e73")]
    ELSE IF Ge(ratio, <<9, 10>>) THEN [text |-> "CRITICAL", color |-> Str("#c9190b")]
    ELSE IF Ge(ratio, <<7, 10>>) THEN [text |-> "WARNING", color |-> Str("#f0ab00")]
    ELSE [text |-> "OK", color |-> Str("#3e8635")]

\* One row of the rows memo: limitBytes is limitBy.get(container) and
\* usageEntry is usageBy.get(container), each Null when the key is absent.
Row_limit(container, limitBytes, usageEntry) ==
    LET limitGiB == IF limitBytes # Null THEN bytesToGiB(limitBytes) ELSE Null
        usageGiB == IF usageEntry # Null THEN usageEntry.gib ELSE Null
        pod == IF usageEntry # Null THEN usageEntry.pod ELSE ""
        ratio ==
            IF usageGiB # Null /\ limitGiB # Null /\ GtZero(limitGiB)
            THEN Div(usageGiB, limitGiB) ELSE Null
    IN  [ container |-> container, limitGiB |-> limitGiB,
          usageGiB |-> usageGiB, ratio |-> ratio, pod |-> pod ]

\* The card rendered for one row: the props handed to Donut and what Donut
\* draws for them.
Card_limit(r) ==
    LET noUsage == r.usageGiB = Null
        noLimit == r.limitGiB = Null
        canComputeRatio == ~noUsage /\ ~noLimit /\ r.ratio # Null
        percent == IF canComputeRatio THEN clamp01(r.ratio) ELSE Zero
        color == getRatioColor(IF canComputeRatio THEN r.ratio ELSE Null)
        status == getStatusLabel(IF canComputeRatio THEN r.ratio ELSE Null)
        percentText ==
            IF canComputeRatio THEN Pct(MathRound(Mul(r.ratio, Num(100)))) ELSE NA
    IN  [ percent |-> percent, showProgress |-> canComputeRatio,
          arc |-> canComputeRatio /\ Gt(percent, Zero),
          \* the Donut of this revision draws no dot
          dot |-> FALSE,
          color |-> color, percentText |-> percentText,
          statusText |-> status.text, statusColor |-> status.color,
          subtitle |-> IF noUsage THEN "No usage data (7d)"
                       ELSE IF noLimit THEN "Max memory used (7d) - No limit set"
                       ELSE "Max memory used (7d)" ]

---------------------------------------------------------------------------
(* Series parser                                                           *)

\* Number(s) for the sample strings of the model; Number(undefined) is NaN.
\* Number("") is 0, and only "Infinity" (not Prometheus' "+Inf") parses to
\* a non-finite value other than NaN.
Number(v) ==
    IF v = Null THEN NaN
    ELSE CASE v[1] = "-1" -> Num(-1)
           [] v[1] = "0" -> Zero
           [] v[1] = "1" -> One
           [] v[1] = "2" -> Num(2)
           [] v[1] = "1073741824" -> Num(1073741824)
           [] v[1] = "" -> Zero
           [] v[1] = "Infinity" -> Infinity
           [] OTHER -> NaN

\* One element of results.map(...) of parsePrometheus: Null when dropped.
\* An entry is [metric |-> [container |-> label], value |-> sample], where
\* sample stands for value[1]; a missing label or sample is Null.
ParseEntry(r) ==
    LET value == IF r = Null THEN NaN ELSE Number(r.value)
    IN  IF ~NumberIsFinite(value) THEN Null
        ELSE LET container ==
                     IF r.metric = Null THEN ""
                     ELSE IF r.metric.container = Null THEN ""
                     ELSE r.metric.container[1]
             IN  IF container = "" \/ container = "POD" THEN Null
                 ELSE [container |-> container, value |-> value]

\* resp?.data?.result ?? []
ResultsOf(response) ==
    IF response = Null THEN <<>>
    ELSE IF response.data = Null THEN <<>>
    ELSE Coalesce(response.data.result, <<>>)

parsePrometheus(response) ==
    LET results == ResultsOf(response)
        mapped == [i \in 1..Len(results) |-> ParseEntry(results[i])]
    IN  SelectSeq(mapped, LAMBDA x : x # Null)

\* r.metric?.<label> ?? '' of the limit revision, whose entries also carry
\* the pod and the workload of the sample.
MetricLabel(metric, label) ==
    IF metric = Null THEN ""
    ELSE IF label \notin DOMAIN metric THEN ""
    ELSE IF metric[label] = Null THEN ""
    ELSE metric[label][1]

ParseEntry_limit(r) ==
    LET value == IF r = Null THEN NaN ELSE Number(r.value)
    IN  IF ~NumberIsFinite(value) THEN Null
        ELSE LET container == MetricLabel(r.metric, "container")
             IN  IF container = "" \/ container = "POD" THEN Null
                 ELSE [container |-> container,
                       pod |-> MetricLabel(r.metric, "pod"),
                       workload |-> MetricLabel(r.metric, "workload"),
                       workload_type |-> MetricLabel(r.metric, "workload_type"),
                       value |-> value]

parsePrometheus_limit(response) ==
    LET results == ResultsOf(response)
        mapped == [i \in 1..Len(results) |-> ParseEntry_limit(results[i])]
    IN  SelectSeq(mapped, LAMBDA x : x # Null)

---------------------------------------------------------------------------
(* Series reconciler                                                       *)

\* Every container name of the model in the order of Array.prototype.sort
\* (UTF-16 code units: upper case before lower case).
NameOrder == <<"POD", "app", "sidecar">>

\* Mutant: the names in descending order.
SortNames_descending(S) ==
    SelectSeq([i \in 1..Len(NameOrder) |-> NameOrder[Len(NameOrder) + 1 - i]],
              LAMBDA c : c \in S)

\* Array.from(new Set(names)).sort() for a set of names.
SortNames(S) == SelectSeq(NameOrder, LAMBDA c : c \in S)

\* The Map after arr.slice(0, n).forEach((s) => m.set(s.container, s.value)),
\* as a function from its keys.
RECURSIVE MapOfPrefix(_, _)
MapOfPrefix(arr, n) ==
    IF n = 0 THEN [c \in {} |-> Null]
    ELSE LET m == MapOfPrefix(arr, n - 1)
         IN  [c \in DOMAIN m \cup {arr[n].container} |->
                 IF c = arr[n].container THEN arr[n].value ELSE m[c]]

\* Mutant: a key keeps the value of its first entry.
mapFrom_firstWins(arr) ==
    [c \in {arr[i].container : i \in 1..Len(arr)} |->
        arr[CHOOSE i \in 1..Len(arr) :
                /\ arr[i].container = c
                /\ \A j \in 1..(i - 1) : arr[j].container # c].value]

mapFrom(arr) == MapOfPrefix(arr, Len(arr))

\* m.get(c): undefined for a key that is not in the map.
MapGet(m, c) == IF c \in DOMAIN m THEN m[c] ELSE Null

\* Mutant: m.get(c) || null, which turns a measured 0 into null.
GetOrNull_falsy(m, c) ==
    IF MapGet(m, c) = Null \/ MapGet(m, c)[1] = 0 THEN Null ELSE MapGet(m, c)

\* Mutant: m.get(c) ?? 0, an absent value shown as a measured 0.
GetOrNull_zero(m, c) == Coalesce(MapGet(m, c), Zero)

\* m.get(c) ?? null
GetOrNull(m, c) == Coalesce(MapGet(m, c), Null)

\* Mutant: v >= 0 in place of v > 0.
NonNegativeKeys(m) == {c \in DOMAIN m : m[c][1] >= 0}

\* Array.from(m.entries()).filter(([, v]) => v > 0).map(([c]) => c)
PositiveKeys(m) == {c \in DOMAIN m : GtZero(m[c])}

\* The same with Number.isFinite(v) && v > 0.
FinitePositiveKeys(m) == {c \in DOMAIN m : NumberIsFinite(m[c]) /\ GtZero(m[c])}

\* .filter((c) => c && c !== 'POD')
NamedKeys(S) == {c \in S : c # "" /\ c # "POD"}

\* Mutant: the current series filtered like the 7d max.
Containers_p2_positive(maxBy, currentBy) ==
    SortNames(PositiveKeys(currentBy) \cup PositiveKeys(maxBy))

\* part_002: containers of the current series, and of the 7d max with a
\* positive value.
Containers_p2(maxBy, currentBy) ==
    SortNames(DOMAIN currentBy \cup PositiveKeys(maxBy))

Rows_p2(requests, max7d, current) ==
    LET requestBy == mapFrom(requests)
        maxBy == mapFrom(max7d)
        currentBy == mapFrom(current)
        containers == Containers_p2(maxBy, currentBy)
    IN  [i \in 1..Len(containers) |->
            Row_p2(containers[i],
                   GetOrNull(requestBy, containers[i]),
                   GetOrNull(maxBy, containers[i]),
                   GetOrNull(currentBy, containers[i]))]

\* part_003: every container of the 7d max or the current series.
Containers_p3(maxBy, currentBy) ==
    SortNames(NamedKeys(DOMAIN maxBy \cup DOMAIN currentBy))

Rows_p3(limits, max7d, current) ==
    LET limitBy == mapFrom(limits)
        maxBy == mapFrom(max7d)
        currentBy == mapFrom(current)
        containers == Containers_p3(maxBy, currentBy)
    IN  [i \in 1..Len(containers) |->
            Row_p3(containers[i],
                   GetOrNull(limitBy, containers[i]),
                   GetOrNull(maxBy, containers[i]),
                   GetOrNull(currentBy, containers[i]))]

\* Mutant: the request series left out of the visible set.
Containers_request_usage(ramReqBy, ramMaxBy, ramCurBy, cpuReqBy, cpuMaxBy, cpuCurBy) ==
    SortNames(NamedKeys(
        DOMAIN ramCurBy \cup DOMAIN cpuCurBy
        \cup FinitePositiveKeys(ramMaxBy) \cup FinitePositiveKeys(cpuMaxBy)))

\* Request-baseline revision: current series, and the 7d max and request
\* series with a positive value, of memory and of CPU.
Containers_request(ramReqBy, ramMaxBy, ramCurBy, cpuReqBy, cpuMaxBy, cpuCurBy) ==
    SortNames(NamedKeys(
        DOMAIN ramCurBy \cup DOMAIN cpuCurBy
        \cup FinitePositiveKeys(ramMaxBy) \cup FinitePositiveKeys(cpuMaxBy)
        \cup FinitePositiveKeys(ramReqBy) \cup FinitePositiveKeys(cpuReqBy)))

Row_request(container, ramReqBy, ramMaxBy, ramCurBy, cpuReqBy, cpuMaxBy, cpuCurBy) ==
    [ container |-> container,
      ramRequestGiB |-> GetOrNull(ramReqBy, container),
      ramMaxGiB |-> GetOrNull(ramMaxBy, container),
      ramCurrentGiB |-> GetOrNull(ramCurBy, container),
      cpuRequestCores |-> GetOrNull(cpuReqBy, container),
      cpuMaxCores |-> GetOrNull(cpuMaxBy, container),
      cpuCurrentCores |-> GetOrNull(cpuCurBy, container) ]

Rows_request(ramRequests, ramMax7d, ramCurrent, cpuRequests, cpuMax7d, cpuCurrent) ==
    LET ramReqBy == mapFrom(ramRequests)
        ramMaxBy == mapFrom(ramMax7d)
        ramCurBy == mapFrom(ramCurrent)
        cpuReqBy == mapFrom(cpuRequests)
        cpuMaxBy == mapFrom(cpuMax7d)
        cpuCurBy == mapFrom(cpuCurrent)
        containers ==
            Containers_request(ramReqBy, ramMaxBy, ramCurBy,
                               cpuReqBy, cpuMaxBy, cpuCurBy)
    IN  [i \in 1..Len(containers) |->
            Row_request(containers[i], ramReqBy, ramMaxBy, ramCurBy,
                        cpuReqBy, cpuMaxBy, cpuCurBy)]

---------------------------------------------------------------------------
(* The widget: polled queries and the rows memo                            *)

Revisions == {"request", "part_002", "part_003"}

\* The queries a revision polls with usePrometheusPoll.
QueriesOf(rv) ==
    CASE rv = "request" ->
            {"ramRequest", "ramMax", "ramCurrent",
             "cpuRequest", "cpuMax", "cpuCurrent"}
      [] rv = "part_002" -> {"request", "max", "current"}
      [] rv = "part_003" -> {"limit", "max", "current"}

\* The result entries the backend sends in the widget specification.
SeriesContainers == {"app", "sidecar"}
SeriesSamples == {"-1", "0", "2"}
Entries ==
    { [metric |-> [container |-> Str(c)], value |-> Str(v)] :
        c \in SeriesContainers, v \in SeriesSamples }

Response(result) == [data |-> [result |-> result]]

\* The weight of the responses of the queries Q.
Weight(response) ==
    IF response = Null THEN 0
    ELSE IF Len(ResultsOf(response)) = 0 THEN 1
    ELSE Len(ResultsOf(response))

RECURSIVE PointsIn(_, _)
PointsIn(rp, Q) ==
    IF Q = {} THEN 0
    ELSE LET q == CHOOSE x \in Q : TRUE
         IN  Weight(rp[q]) + PointsIn(rp, Q \ {q})

\* The parse memos and the rows memo of one render.
Render(rv, rp) ==
    CASE rv = "request" ->
            Rows_request(parsePrometheus(rp["ramRequest"]),
                         parsePrometheus(rp["ramMax"]),
                         parsePrometheus(rp["ramCurrent"]),
                         parsePrometheus(rp["cpuRequest"]),
                         parsePrometheus(rp["cpuMax"]),
                         parsePrometheus(rp["cpuCurrent"]))
      [] rv = "part_002" ->
            Rows_p2(parsePrometheus(rp["request"]),
                    parsePrometheus(rp["max"]),
                    parsePrometheus(rp["current"]))
      [] rv = "part_003" ->
            Rows_p3(parsePrometheus(rp["limit"]),
                    parsePrometheus(rp["max"]),
                    parsePrometheus(rp["current"]))

\* The settings document of the README.
ReadmeSettings ==
    [ enableThresholdColors |-> <<TRUE>>,
      thresholds |-> [redBelow |-> <<1, 10>>, yellowBelow |-> <<1, 2>>],
      colors |-> [green |-> Str("#3E8635"), yellow |-> Str("#F0AB00"),
                  red |-> Str("#C9190B")] ]

NoCall == [maxVal |-> Null, requestVal |-> Null, out |-> Null]

\* The widget is mounted: no query has answered, the rows memo is empty.
Init ==
    /\ rev \in Revisions
    /\ resp = [q \in QueriesOf(rev) |-> Null]
    /\ rows = <<>>
    /\ settings = ReadmeSettings
    /\ call = NoCall
    /\ poll = <<>>

\* A poll of query q answers with a result list; the component renders
\* again: the parse memo of q and the rows memo are recomputed.
PollResponse(q, result) ==
    /\ resp' = [resp EXCEPT ![q] = Response(result)]
    /\ rows' = Render(rev, resp')
    /\ UNCHANGED <<settings, call, rev, poll>>

\* The result lists query q may answer with, within the bound.
ResultsFor(q) ==
    LET free == MaxPoints - PointsIn(resp, DOMAIN resp \ {q})
    IN  IF free < 1 THEN {}
        ELSE UNION {[1..k -> Entries] : k \in 0..free}

Next ==
    \E q \in DOMAIN resp :
        \E result \in ResultsFor(q) :
            PollResponse(q, result)

Spec == Init /\ [][Next]_vars

---------------------------------------------------------------------------
(* The derivation of one donut, revision by revision                       *)

SampleVals == {-1} \cup (0..MaxVal)
FiniteNums == {Num(v) : v \in SampleVals}
OptFinite == FiniteNums \cup {Null}
AnyNums == OptFinite \cup {NaN, Infinity}

\* The baselines (requests, limits) tried: none, negative, zero, and the
\* positive ones that put the ratios on and around the thresholds.
BaselineVals == {-1, 0, 1, 2, 5, MaxVal}
OptBaselines == {Num(v) : v \in BaselineVals} \cup {Null}
AnyBaselines == OptBaselines \cup {NaN, Infinity}

\* The limit revision: limits in bytes (whole GiB), usage in tenths of GiB.
LimitBytes == {Null, Num(-BytesPerGiB), Zero, Num(BytesPerGiB)}
UsageTenths == {-1} \cup (0 .. MaxVal + 5)
UsageEntries == {Null} \cup {[gib |-> <<v, 10>>, pod |-> "web-0"] : v \in UsageTenths}

\* The revisions that import finops-settings.json.
SettingsRevisions == {"request", "part_002"}

\* A revision is built with its settings document; no donut is rendered.
InitDerive ==
    /\ rev \in Revisions \cup {"limit"}
    /\ settings \in IF rev \in SettingsRevisions THEN SettingsDocs ELSE {Null}
    /\ call = NoCall
    /\ resp = <<>>
    /\ rows = <<>>
    /\ poll = <<>>

\* Mutant: the color of the donut rendered before is kept.
RenderDonutRAM_sticky(maxGiB, requestGiB) ==
    /\ rev = "request"
    /\ LET d == DonutRAM(maxGiB, requestGiB)
       IN  call' = [maxVal |-> maxGiB, requestVal |-> requestGiB,
                    out |-> IF call.out = Null THEN d
                            ELSE [d EXCEPT !.m.color = call.out.m.color]]
    /\ UNCHANGED <<settings, rev, resp, rows, poll>>

\* <DonutRAM maxGiB requestGiB /> (and DonutCPU) of the request revision.
RenderDonutRAM(maxGiB, requestGiB) ==
    /\ rev = "request"
    /\ call' = [maxVal |-> maxGiB, requestVal |-> requestGiB,
                out |-> DonutRAM(maxGiB, requestGiB)]
    /\ UNCHANGED <<settings, rev, resp, rows, poll>>

\* One row of part_002 and its <Donut />.
RenderRow_p2(maxGiB, requestGiB) ==
    /\ rev = "part_002"
    /\ LET r == Row_p2("app", requestGiB, maxGiB, Null)
       IN  call' = [maxVal |-> maxGiB, requestVal |-> requestGiB,
                    out |-> [m |-> r,
                             donut |-> Donut_p2(r.usedRatio, r.overReservedText,
                                                r.hasRequest)]]
    /\ UNCHANGED <<settings, rev, resp, rows, poll>>

\* One row of part_003 and its <Donut />.
RenderRow_p3(maxGiB, limitGiB) ==
    /\ rev = "part_003"
    /\ LET r == Row_p3("app", limitGiB, maxGiB, Null)
       IN  call' = [maxVal |-> maxGiB, requestVal |-> limitGiB,
                    out |-> [m |-> r,
                             donut |-> Donut_p3(r.usedRatio, r.overReservedText,
                                                r.hasLimit)]]
    /\ UNCHANGED <<settings, rev, resp, rows, poll>>

\* One row of the limit revision and its card.
RenderRow_limit(usageEntry, limitBytes) ==
    /\ rev = "limit"
    /\ LET r == Row_limit("app", limitBytes, usageEntry)
       IN  call' = [maxVal |-> r.usageGiB, requestVal |-> r.limitGiB,
                    out |-> [m |-> r, donut |-> Card_limit(r)]]
    /\ UNCHANGED <<settings, rev, resp, rows, poll>>

NextDerive ==
    \/ \E a \in AnyNums, b \in AnyBaselines : RenderDonutRAM(a, b)
    \/ \E a \in OptFinite, b \in OptBaselines : RenderRow_p2(a, b)
    \/ \E a \in OptFinite, b \in OptBaselines : RenderRow_p3(a, b)
    \/ \E u \in UsageEntries, l \in LimitBytes : RenderRow_limit(u, l)

SpecDerive == InitDerive /\ [][NextDerive]_vars

---------------------------------------------------------------------------
(* The parser alone, on well-formed and malformed payloads                 *)

\* What a result entry may hold: no metric, a metric without container, an
\* empty, reserved or plain container; no value, or a sample string that is
\* a number, empty, not a number, or an infinity.
ParseMetrics ==
    {Null, [container |-> Null]}
        \cup {[container |-> Str(c)] : c \in {"", "POD", "app"}}
ParseSamples == {"2", "0", "-1", "", "abc", "NaN", "Infinity"}
ParseValues == {Null} \cup {Str(v) : v \in ParseSamples}
ParseEntries ==
    {Null} \cup [metric : ParseMetrics, value : ParseValues]

\* A second entry, behind any first one.
SecondEntries ==
    { [metric |-> [container |-> Str("app")], value |-> Str(v)] :
        v \in {"2", ""} }

\* The payloads handed to the parser: undefined, without data, without
\* data.result, and result lists of one or two entries.
ParseResponses ==
    {Null, [data |-> Null], [data |-> [result |-> Null]], Response(<<>>)}
        \cup {Response(<<r>>) : r \in ParseEntries}
        \cup {Response(<<r, t>>) : r \in ParseEntries, t \in SecondEntries}

InitParse ==
    /\ rev \in Revisions \cup {"limit"}
    /\ resp = Null
    /\ call = NoCall
    /\ rows = <<>>
    /\ settings = Null
    /\ poll = <<>>

\* One evaluation of the parse memo of a query.
Parse(response) ==
    /\ resp' = response
    /\ call' = [NoCall EXCEPT
                  !.out = IF rev = "limit" THEN parsePrometheus_limit(response)
                          ELSE parsePrometheus(response)]
    /\ UNCHANGED <<settings, rev, rows, poll>>

NextParse == \E response \in ParseResponses : Parse(response)

SpecParse == InitParse /\ [][NextParse]_vars

---------------------------------------------------------------------------
(* The widget with the state of its polls: errors, loading, ticks          *)

\* Re-deliveries (ticks after the first answer of a query) in one run.
MaxRepolls == 1

PollRevisions == Revisions \cup {"limit"}

QueriesOfPoll(rv) ==
    IF rv = "limit" THEN {"limit", "usage"} ELSE QueriesOf(rv)

\* obj?.metadata?.name of the Deployment the tab is opened on.
deploymentName == "web"

\* parsePrometheus(resp).filter(workload_type and workload of the tab)
WorkloadFilter(series) ==
    SelectSeq(series, LAMBDA x :
        x.workload_type = "deployment" /\ x.workload = deploymentName)

\* Mutant: the keys of the two maps concatenated, without the Set.
Containers_limit_concat(limitBy, usageBy) ==
    SortNames(NamedKeys(DOMAIN limitBy)) \o SortNames(NamedKeys(DOMAIN usageBy))

\* The rows memo of the limit revision.
Containers_limit(limitBy, usageBy) ==
    SortNames(NamedKeys(DOMAIN limitBy \cup DOMAIN usageBy))

Rows_limit(limits, usage) ==
    LET limitBy == mapFrom(limits)
        usageBy == mapFrom([i \in 1..Len(usage) |->
                       [container |-> usage[i].container,
                        value |-> [gib |-> usage[i].value, pod |-> usage[i].pod]]])
        containers == Containers_limit(limitBy, usageBy)
    IN  [i \in 1..Len(containers) |->
            Row_limit(containers[i],
                      MapGet(limitBy, containers[i]),
                      MapGet(usageBy, containers[i]))]

\* Mutant: the rows of the render before are kept in front of the new ones.
RenderPoll_accumulating(rv, rp) ==
    rows \o
    (IF rv = "limit"
     THEN Rows_limit(WorkloadFilter(parsePrometheus_limit(rp["limit"])),
                     WorkloadFilter(parsePrometheus_limit(rp["usage"])))
     ELSE Render(rv, rp))

\* The parse memos and the rows memo of one render, the limit revision
\* included.
RenderPoll(rv, rp) ==
    IF rv = "limit"
    THEN Rows_limit(WorkloadFilter(parsePrometheus_limit(rp["limit"])),
                    WorkloadFilter(parsePrometheus_limit(rp["usage"])))
    ELSE Render(rv, rp)

\* Mutant: the error line does not depend on the rows.
View_errorAlways(rv, pl, rws) ==
    IF rv = "part_002"
    THEN [errorShown |-> FALSE, loadingShown |-> FALSE,
          noDataShown |-> FALSE, rowsShown |-> rws]
    ELSE LET loading == \E q \in DOMAIN pl : pl[q].loading
             hasAnyError == \E q \in DOMAIN pl : pl[q].error
         IN  [errorShown |-> hasAnyError,
              loadingShown |-> loading,
              noDataShown |-> ~loading /\ Len(rws) = 0,
              rowsShown |-> IF ~loading THEN rws ELSE <<>>]

\* Mutant: no rows are rendered while a query is in error.
View_rowsHiddenOnError(rv, pl, rws) ==
    IF rv = "part_002"
    THEN [errorShown |-> FALSE, loadingShown |-> FALSE,
          noDataShown |-> FALSE, rowsShown |-> <<>>]
    ELSE LET loading == \E q \in DOMAIN pl : pl[q].loading
             hasAnyError == \E q \in DOMAIN pl : pl[q].error
         IN  [errorShown |-> hasAnyError /\ Len(rws) = 0,
              loadingShown |-> loading,
              noDataShown |-> ~loading /\ Len(rws) = 0,
              rowsShown |-> IF ~loading /\ ~hasAnyError THEN rws ELSE <<>>]

\* Mutant: 'No data available' is not rendered while a query is in error.
View_noDataHiddenOnError(rv, pl, rws) ==
    IF rv = "part_002"
    THEN [errorShown |-> FALSE, loadingShown |-> FALSE,
          noDataShown |-> FALSE, rowsShown |-> rws]
    ELSE LET loading == \E q \in DOMAIN pl : pl[q].loading
             hasAnyError == \E q \in DOMAIN pl : pl[q].error
         IN  [errorShown |-> hasAnyError /\ Len(rws) = 0,
              loadingShown |-> loading,
              noDataShown |-> ~loading /\ ~hasAnyError /\ Len(rws) = 0,
              rowsShown |-> IF ~loading THEN rws ELSE <<>>]

\* Mutant: the cards are rendered while a query is loading.
View_rowsWhileLoading(rv, pl, rws) ==
    IF rv = "part_002"
    THEN [errorShown |-> FALSE, loadingShown |-> FALSE,
          noDataShown |-> FALSE, rowsShown |-> rws]
    ELSE LET loading == \E q \in DOMAIN pl : pl[q].loading
             hasAnyError == \E q \in DOMAIN pl : pl[q].error
         IN  [errorShown |-> hasAnyError /\ Len(rws) = 0,
              loadingShown |-> loading,
              noDataShown |-> ~loading /\ Len(rws) = 0,
              rowsShown |-> rws]

\* What the component returns: the error line, the Loading line, the
\* 'No data available' line, the cards. part_002 keeps only the response
\* of each poll and always renders the cards of its rows.
View(rv, pl, rws) ==
    IF rv = "part_002"
    THEN [errorShown |-> FALSE, loadingShown |-> FALSE,
          noDataShown |-> FALSE, rowsShown |-> rws]
    ELSE LET loading == \E q \in DOMAIN pl : pl[q].loading
             hasAnyError == \E q \in DOMAIN pl : pl[q].error
         IN  [errorShown |-> hasAnyError /\ Len(rws) = 0,
              loadingShown |-> loading,
              noDataShown |-> ~loading /\ Len(rws) = 0,
              rowsShown |-> IF ~loading THEN rws ELSE <<>>]

\* The result lists a query answers with in this specification.
PollEntry(c, v) == [metric |-> [container |-> Str(c)], value |-> Str(v)]
LimitEntry(v, w) ==
    [ metric |-> [container |-> Str("app"), pod |-> Str("web-0"),
                  workload |-> Str(w), workload_type |-> Str("deployment")],
      value |-> Str(v) ]
PollResults(rv, q) ==
    CASE rv = "request" -> {<<>>, <<PollEntry("app", "2")>>}
      [] rv = "limit" /\ q = "limit" ->
            {<<>>, <<LimitEntry("1073741824", "web")>>,
             <<LimitEntry("1073741824", "other")>>,
             <<LimitEntry("0", "web"), LimitEntry("1073741824", "web")>>}
      [] rv = "limit" /\ q = "usage" ->
            {<<>>, <<LimitEntry("2", "web")>>, <<LimitEntry("2", "other")>>,
             <<LimitEntry("0", "web"), LimitEntry("1", "web")>>}
      [] OTHER ->
            {<<>>, <<PollEntry("app", "2")>>,
             <<PollEntry("sidecar", "0"), PollEntry("app", "1")>>}

\* The initial return of usePrometheusPoll: no response, no error, loading.
InitPoll ==
    /\ rev \in PollRevisions
    /\ resp = [q \in QueriesOfPoll(rev) |-> Null]
    /\ poll = [q \in QueriesOfPoll(rev) |->
                 [error |-> FALSE, loading |-> TRUE, tick |-> 0]]
    /\ rows = <<>>
    /\ settings = ReadmeSettings
    /\ call = NoCall

RECURSIVE RepollsIn(_, _)
RepollsIn(pl, Q) ==
    IF Q = {} THEN 0
    ELSE LET q == CHOOSE x \in Q : TRUE
         IN  (IF pl[q].tick > 1 THEN pl[q].tick - 1 ELSE 0)
             + RepollsIn(pl, Q \ {q})

CanPoll(q) == poll[q].tick = 0 \/ RepollsIn(poll, DOMAIN poll) < MaxRepolls

\* Mutant: a delivery drops the payloads that sibling queries hold from an
\* earlier tick.
PollSuccess_sameTickOnly(q, result) ==
    /\ CanPoll(q)
    /\ resp' = [o \in DOMAIN resp |->
                  IF o = q THEN Response(result)
                  ELSE IF poll[o].tick < poll[q].tick + 1 THEN Null
                  ELSE resp[o]]
    /\ poll' = [poll EXCEPT ![q] =
                  [error |-> FALSE, loading |-> FALSE, tick |-> @.tick + 1]]
    /\ rows' = RenderPoll(rev, resp')
    /\ UNCHANGED <<settings, call, rev>>

\* A tick of the poll of q succeeds: the hook returns the payload, no
\* error, not loading; the component renders again.
PollSuccess(q, result) ==
    /\ CanPoll(q)
    /\ resp' = [resp EXCEPT ![q] = Response(result)]
    /\ poll' = [poll EXCEPT ![q] =
                  [error |-> FALSE, loading |-> FALSE, tick |-> @.tick + 1]]
    /\ rows' = RenderPoll(rev, resp')
    /\ UNCHANGED <<settings, call, rev>>

\* A tick of the poll of q fails: the hook returns no response, the error,
\* not loading; the component renders again.
PollFailure(q) ==
    /\ CanPoll(q)
    /\ resp' = [resp EXCEPT ![q] = Null]
    /\ poll' = [poll EXCEPT ![q] =
                  [error |-> TRUE, loading |-> FALSE, tick |-> @.tick + 1]]
    /\ rows' = RenderPoll(rev, resp')
    /\ UNCHANGED <<settings, call, rev>>

NextPoll ==
    \E q \in DOMAIN resp :
        \/ \E result \in PollResults(rev, q) : PollSuccess(q, result)
        \/ PollFailure(q)

SpecPoll == InitPoll /\ [][NextPoll]_vars

---------------------------------------------------------------------------
(* The query builder.  A string is the sequence of its characters; a query *)
(* is its selectors in template order, a selector its metric and its label *)
(* matchers, a matcher its label, its operator and the quoted literal the  *)
(* template writes: a double quote, the interpolated value, a double quote *)

\* Workload names hold at most MaxName characters.
MaxName == 2

\* An ordinary character, the separator, a regex metacharacter, and the two
\* characters that are special inside a quoted literal.
NameChars == {"a", "-", ".", "\"", "\\"}
StringsUpTo(n) == UNION {[1..k -> NameChars] : k \in 0..n}
WorkloadNames == StringsUpTo(MaxName)
Namespaces == StringsUpTo(1)

\* 'deployment', 'statefulset', 'daemonset' and 'workload'.
Deployment == <<"d", "e", "p", "l", "o", "y", "m", "e", "n", "t">>
Statefulset == <<"s", "t", "a", "t", "e", "f", "u", "l", "s", "e", "t">>
Daemonset == <<"d", "a", "e", "m", "o", "n", "s", "e", "t">>
Workload == <<"w", "o", "r", "k", "l", "o", "a", "d">>
WorkloadTypes == {Deployment, Statefulset, Daemonset, Workload}

RECURSIVE Concat(_)
Concat(parts) ==
    IF parts = <<>> THEN <<>> ELSE Head(parts) \o Concat(Tail(parts))

\* The characters of the class [.*+?^${}()|[\]\\].
RegexMeta ==
    {".", "*", "+", "?", "^", "$", "{", "}", "(", ")", "|", "[", "]", "\\"}

\* The replacement '\\$&' leaves the dot as it is.
escapeRegex_dotKept(s) ==
    Concat([i \in 1..Len(s) |->
              IF s[i] \in RegexMeta \ {"."} THEN <<"\\", s[i]>> ELSE <<s[i]>>])

\* s.replace(/[.*+?^${}()|[\]\\]/g, '\\$&'): each character of the class is
\* replaced by a backslash and itself.
escapeRegex(s) ==
    Concat([i \in 1..Len(s) |->
              IF s[i] \in RegexMeta THEN <<"\\", s[i]>> ELSE <<s[i]>>])

\* `${escapeRegex(workloadName)}-.*`
PodRegex(workloadName) == escapeRegex(workloadName) \o <<"-", ".", "*">>

\* label="${value}" as the template writes it.
Quoted(value) == <<"\"">> \o value \o <<"\"">>
Matcher(label, op, value) ==
    [label |-> label, op |-> op, text |-> Quoted(value)]

\* container!="" and container!="POD"
NotInfra ==
    <<Matcher("container", "!=", <<>>),
      Matcher("container", "!=", <<"P", "O", "D">>)>>

Resource(name) == Matcher("resource", "=", name)
Memory == <<"m", "e", "m", "o", "r", "y">>
Cpu == <<"c", "p", "u">>
WorkingSet == "container_memory_working_set_bytes"
CpuUsage ==
    "node_namespace_pod_container:container_cpu_usage_seconds_total:sum_irate"
Requests == "kube_pod_container_resource_requests"
Limits == "kube_pod_container_resource_limits"
OwnerRelabel == "namespace_workload_pod:kube_pod_owner:relabel"

Selector(metric, matchers) == [metric |-> metric, matchers |-> matchers]

\* part_002 and part_003: pods are selected by name.
PodSelector(metric, namespace, podRegex, more) ==
    Selector(metric,
             <<Matcher("namespace", "=", namespace),
               Matcher("pod", "=~", podRegex)>> \o more \o NotInfra)

buildQueries_p2(namespace, workloadName) ==
    LET podRegex == PodRegex(workloadName)
    IN  [ podRegex |-> podRegex,
          max7dQuery |-> <<PodSelector(WorkingSet, namespace, podRegex, <<>>)>>,
          currentQuery |-> <<PodSelector(WorkingSet, namespace, podRegex, <<>>)>>,
          requestQuery |->
              <<PodSelector(Requests, namespace, podRegex,
                            <<Resource(Memory)>>)>> ]

buildQueries_p3(namespace, workloadName) ==
    LET podRegex == PodRegex(workloadName)
    IN  [ podRegex |-> podRegex,
          max7dQuery |-> <<PodSelector(WorkingSet, namespace, podRegex, <<>>)>>,
          currentQuery |-> <<PodSelector(WorkingSet, namespace, podRegex, <<>>)>>,
          limitQuery |->
              <<PodSelector(Limits, namespace, podRegex,
                            <<Resource(Memory)>>)>> ]

\* The request revision: the series is joined with the owner of the pod.
OwnerSelector(namespace, workloadName, workloadType) ==
    Selector(OwnerRelabel,
             <<Matcher("namespace", "=", namespace),
               Matcher("workload", "=", workloadName),
               Matcher("workload_type", "=", workloadType)>>)

Joined(metric, first, namespace, workloadName, workloadType) ==
    <<Selector(metric,
               first \o <<Matcher("namespace", "=", namespace)>>
                     \o NotInfra),
      OwnerSelector(namespace, workloadName, workloadType)>>

buildQueries_request(namespace, workloadName, workloadType) ==
    LET t == workloadType
    IN  [ ramRequestQuery |->
              Joined(Requests, <<Resource(Memory)>>, namespace, workloadName, t),
          ramMax7dQuery |-> Joined(WorkingSet, <<>>, namespace, workloadName, t),
          ramCurrentQuery |-> Joined(WorkingSet, <<>>, namespace, workloadName, t),
          cpuMax7dCoresQuery |-> Joined(CpuUsage, <<>>, namespace, workloadName, t),
          cpuCurrentCoresQuery |->
              Joined(CpuUsage, <<>>, namespace, workloadName, t),
          cpuRequestCoresQuery |->
              Joined(Requests, <<Resource(Cpu)>>, namespace, workloadName, t) ]

\* The limit revision: every workload of the namespace, one builder input.
AnyWorkloadType ==
    Matcher("workload_type", "=~",
            Deployment \o <<"|">> \o Statefulset \o <<"|">> \o Daemonset)

buildQueries_limit(namespace) ==
    LET owner == Selector(OwnerRelabel,
                          <<Matcher("namespace", "=", namespace),
                            AnyWorkloadType>>)
    IN  [ limitQuery |->
              <<Selector(Limits,
                         <<Resource(Memory),
                           Matcher("namespace", "=", namespace)>>
                             \o NotInfra),
                owner>>,
          usageQuery |->
              <<Selector(WorkingSet,
                         <<Matcher("namespace", "=", namespace)>>
                             \o NotInfra),
                owner>> ]

buildQueries(rv, namespace, workloadName, workloadType) ==
    CASE rv = "request" ->
            buildQueries_request(namespace, workloadName, workloadType)
      [] rv = "part_002" -> buildQueries_p2(namespace, workloadName)
      [] rv = "part_003" -> buildQueries_p3(namespace, workloadName)
      [] rv = "limit" -> buildQueries_limit(namespace)

\* The tab is mounted for an object: its namespace, its name and the
\* workload type derived from its kind; no query is built yet.
InitQuery ==
    /\ rev \in PollRevisions
    /\ call \in [namespace : Namespaces, workloadName : WorkloadNames,
                 workloadType : WorkloadTypes, out : {Null}]
    /\ settings = Null
    /\ resp = <<>>
    /\ rows = <<>>
    /\ poll = <<>>

\* The useMemo of the queries.
BuildQueries ==
    /\ call.out = Null
    /\ call' = [call EXCEPT
                  !.out = buildQueries(rev, call.namespace, call.workloadName,
                                       call.workloadType)]
    /\ UNCHANGED <<settings, rev, resp, rows, poll>>

NextQuery == BuildQueries

SpecQuery == InitQuery /\ [][NextQuery]_vars

---------------------------------------------------------------------------
(* Properties of the reconciler, checked under Spec                        *)

\* The parsed series of query q, and what it holds for container c: the
\* value of a container is that of its last entry.
Series(q) == parsePrometheus(resp[q])
HasEntry(q, c) == \E i \in 1..Len(Series(q)) : Series(q)[i].container = c
ValueIn(q, c) ==
    LET S == Series(q)
        i == CHOOSE k \in 1..Len(S) :
                /\ S[k].container = c
                /\ \A j \in (k + 1)..Len(S) : S[j].container # c
    IN  S[i].value
PositiveIn(q, c) == HasEntry(q, c) /\ ValueIn(q, c)[1] > 0

Shown(c) == \E i \in 1..Len(rows) : rows[i].container = c
RowOf(c) == rows[CHOOSE i \in 1..Len(rows) : rows[i].container = c]

\* The field of a row that shows the series of query q.
RowField(row, q) ==
    CASE q = "ramRequest" -> row.ramRequestGiB
      [] q = "ramMax" -> row.ramMaxGiB
      [] q = "ramCurrent" -> row.ramCurrentGiB
      [] q = "cpuRequest" -> row.cpuRequestCores
      [] q = "cpuMax" -> row.cpuMaxCores
      [] q = "cpuCurrent" -> row.cpuCurrentCores
      [] q = "request" -> row.requestGiB
      [] q = "limit" -> row.limitGiB
      [] q = "max" -> row.maxGiB
      [] q = "current" -> row.currentGiB

CurrentQueries ==
    IF rev = "request" THEN {"ramCurrent", "cpuCurrent"} ELSE {"current"}
PeakQueries == IF rev = "request" THEN {"ramMax", "cpuMax"} ELSE {"max"}

InCurrent(c) == \E q \in CurrentQueries : HasEntry(q, c)
PositivePeak(c) == \E q \in PeakQueries : PositiveIn(q, c)
PositiveRequest(c) == PositiveIn("ramRequest", c) \/ PositiveIn("cpuRequest", c)

\* C1 as stated: in the request-baseline revision a container is shown if
\* and only if it is a key of a current series or a key of a peak series
\* with a value > 0 (a container found only in a request series is not).
C1_ShownIffCurrentOrPositivePeak ==
    rev = "request" =>
        \A c \in SeriesContainers : Shown(c) <=> (InCurrent(c) \/ PositivePeak(c))

\* C1 amended: in the request-baseline revision a container is shown if and
\* only if it is a key of a current series, or a key of a peak series with
\* a value > 0, or a key of a request series with a value > 0; in part_002
\* it is shown if and only if it is a key of the current series or a key of
\* the peak series with a value > 0.
C1_ShownIffCurrentOrPositivePeakOrRequest ==
    /\ rev = "request" =>
        \A c \in SeriesContainers :
            Shown(c) <=> (InCurrent(c) \/ PositivePeak(c) \/ PositiveRequest(c))
    /\ rev = "part_002" =>
        \A c \in SeriesContainers : Shown(c) <=> (InCurrent(c) \/ PositivePeak(c))

\* A container of the request revision that only a request series holds,
\* with a positive value, and that is shown.
C1_Witness ==
    /\ rev = "request"
    /\ \E c \in SeriesContainers :
        /\ PositiveRequest(c) /\ ~InCurrent(c) /\ ~PositivePeak(c)
        /\ \A q \in PeakQueries : ~HasEntry(q, c)
        /\ Shown(c)

\* Container c is found in the series of query q and in no other series.
OnlyIn(q, c) ==
    HasEntry(q, c) /\ \A o \in DOMAIN resp \ {q} : ~HasEntry(o, c)

\* C2: in part_002, part_003 and the request revision, a container found
\* in a current series with the value 0 and in no other series has a row,
\* whose current field is 0 and whose other fields are all null.
C2_IdleContainerShown ==
    \A c \in SeriesContainers : \A q \in CurrentQueries :
        (OnlyIn(q, c) /\ ValueIn(q, c) = Zero) =>
            /\ Shown(c)
            /\ RowField(RowOf(c), q) = Zero
            /\ \A o \in DOMAIN resp \ {q} : RowField(RowOf(c), o) = Null

C2_Witness ==
    \E c \in SeriesContainers : \E q \in CurrentQueries :
        /\ OnlyIn(q, c) /\ ValueIn(q, c) = Zero
        /\ Shown(c) /\ RowField(RowOf(c), q) = Zero

\* Container c is found in peak series only, never with a value > 0.
GhostOnly(c) ==
    /\ \E q \in PeakQueries : HasEntry(q, c)
    /\ \A q \in DOMAIN resp \ PeakQueries : ~HasEntry(q, c)
    /\ ~PositivePeak(c)

\* C3 as stated: in part_002, part_003 and the request revision a container
\* found only in the peak series, with a value <= 0, has no row.
C3_GhostSuppressed ==
    \A c \in SeriesContainers : GhostOnly(c) => ~Shown(c)

\* C3 amended: in part_002 and the request revision a container found only
\* in the peak series, with a value <= 0, has no row; part_003 shows every
\* container of the peak series: there it has a row with that peak value
\* and no current value.
C3_GhostSuppressedExceptPart003 ==
    /\ rev \in {"part_002", "request"} =>
        \A c \in SeriesContainers : GhostOnly(c) => ~Shown(c)
    /\ rev = "part_003" =>
        \A c \in SeriesContainers :
            GhostOnly(c) =>
                /\ Shown(c)
                /\ RowOf(c).maxGiB = ValueIn("max", c)
                /\ RowOf(c).currentGiB = Null

C3_Witness ==
    /\ rev \in {"part_002", "request"}
    /\ \E c \in SeriesContainers : GhostOnly(c) /\ ~Shown(c)
    /\ Len(rows) > 0

\* C4: for every row and every series, the field of the row is null exactly
\* when the container has no entry in the parsed series, and is the value
\* of the series otherwise: a measured 0 stays 0 and an absent value stays
\* null.
C4_AbsentIsNullZeroIsZero ==
    \A i \in 1..Len(rows) : \A q \in DOMAIN resp :
        LET c == rows[i].container
            f == RowField(rows[i], q)
        IN  /\ (f = Null) <=> ~HasEntry(q, c)
            /\ HasEntry(q, c) => f = ValueIn(q, c)

\* A row with a series measured as 0 and another series absent.
C4_Witness ==
    \E i \in 1..Len(rows) : \E q, o \in DOMAIN resp :
        /\ HasEntry(q, rows[i].container)
        /\ ValueIn(q, rows[i].container) = Zero
        /\ RowField(rows[i], q) = Zero
        /\ ~HasEntry(o, rows[i].container)
        /\ RowField(rows[i], o) = Null

\* How many entries the parsed series of q has for c, how many rows c has.
Occurrences(q, c) ==
    Cardinality({i \in 1..Len(Series(q)) : Series(q)[i].container = c})
RowCount(c) == Cardinality({i \in 1..Len(rows) : rows[i].container = c})

\* C14: when a parsed series holds the same container more than once, the
\* lookup table built from the series holds for it the value of its last
\* occurrence, which is the value its row shows, and the container still
\* has a single row (none when it does not qualify for display).
C14_LastWriteWins ==
    \A q \in DOMAIN resp : \A c \in SeriesContainers :
        Occurrences(q, c) >= 2 =>
            /\ MapGet(mapFrom(Series(q)), c) = ValueIn(q, c)
            /\ RowCount(c) = IF Shown(c) THEN 1 ELSE 0
            /\ Shown(c) => RowField(RowOf(c), q) = ValueIn(q, c)

\* A series with two different values for one container; the row shows
\* the second.
C14_Witness ==
    \E q \in DOMAIN resp : \E c \in SeriesContainers :
        /\ Len(Series(q)) = 2
        /\ Series(q)[1].container = c /\ Series(q)[2].container = c
        /\ Series(q)[1].value # Series(q)[2].value
        /\ RowCount(c) = 1
        /\ RowField(RowOf(c), q) = Series(q)[2].value

---------------------------------------------------------------------------
(* Properties of the derivation, checked under SpecDerive                  *)

Rendered == call # NoCall

\* What the last render derived, by revision: the ratio, the ratio of the
\* gauge arc, whether a progress is drawn, the badge or status text.
RatioOf ==
    IF rev \in {"request", "limit"} THEN call.out.m.ratio
    ELSE call.out.m.usedRatio
ArcRatioOf ==
    IF rev = "limit" THEN call.out.donut.percent ELSE call.out.donut.ratio
BadgeOf ==
    IF rev = "limit" THEN call.out.donut.percentText
    ELSE call.out.donut.badgeText

Present(x) == x # Null
Finite(x) == x[2] # 0
Positive(x) == x[1] > 0

\* x = a / b, for finite a, b and x.
IsQuotient(x, a, b) == x[1] * b[1] * a[2] = a[1] * b[2] * x[2]

\* C5: the ratio is defined if and only if the baseline (request or limit)
\* is present, finite and > 0 and the peak is present and finite; it is
\* then the peak divided by the baseline, and may exceed 1.
C5_RatioDefinedIff ==
    Rendered =>
        /\ Present(RatioOf) <=>
              /\ Present(call.requestVal) /\ Finite(call.requestVal)
              /\ Positive(call.requestVal)
              /\ Present(call.maxVal) /\ Finite(call.maxVal)
        /\ Present(RatioOf) =>
              /\ Finite(RatioOf)
              /\ IsQuotient(RatioOf, call.maxVal, call.requestVal)

\* buildDonutModel has returned a ratio above 1.
C5_Witness ==
    /\ rev = "request" /\ Rendered
    /\ Present(RatioOf) /\ Gt(RatioOf, One)
    /\ IsQuotient(RatioOf, call.maxVal, call.requestVal)

NoBaseline ==
    \/ call.requestVal = Null
    \/ Finite(call.requestVal) /\ call.requestVal[1] <= 0

\* C6: when the baseline is missing or <= 0, whatever the peak, the ratio
\* and the clamped ratio are undefined (no progress is drawn), the
\* over-reservation is 'N/A' and the text shown is the no-baseline one
\* ('No request', 'No limit', 'N/A').
C6_NoBaselineState ==
    (Rendered /\ NoBaseline) =>
        /\ RatioOf = Null
        /\ ~call.out.donut.showProgress
        /\ rev = "request" =>
              /\ call.out.m.ratioClamped = Null
              /\ call.out.donut.badgeText = NoRequest
              /\ call.out.donut.overReservedText = NA
        /\ rev = "part_002" =>
              /\ call.out.donut.badgeText = NoRequest
              /\ call.out.donut.overReservedText = NA
        /\ rev = "part_003" =>
              /\ call.out.donut.badgeText = NoLimit
              /\ call.out.donut.overReservedText = NA
        /\ rev = "limit" =>
              /\ call.out.donut.statusText = "N/A"
              /\ call.out.donut.percentText = NA

\* A request of 0 with a positive peak: 'No request'.
C6_Witness ==
    /\ rev = "request" /\ Rendered
    /\ call.requestVal = Zero
    /\ Present(call.maxVal) /\ Finite(call.maxVal) /\ Positive(call.maxVal)
    /\ call.out.donut.badgeText = NoRequest

\* n = Math.round(x * 100), stated without the rounding operator.
IsRoundedPercent(n, x) ==
    /\ (2 * n - 1) * x[2] <= 200 * x[1]
    /\ 200 * x[1] < (2 * n + 1) * x[2]

AboveOne == Rendered /\ Present(RatioOf) /\ Gt(RatioOf, One)

\* C7 as stated: for every defined ratio > 1 the ratio of the gauge arc is
\* exactly 1 and the percentage of the badge text is the unclamped
\* round(ratio * 100).
C7_ArcClampedTextUnclamped ==
    AboveOne =>
        /\ ArcRatioOf = One
        /\ IsRoundedPercent(BadgeOf.n, RatioOf)

\* C7 amended: for every defined ratio > 1 the ratio of the gauge arc is
\* exactly 1; the limit-baseline revision shows the unclamped
\* round(ratio * 100) as its percentage, while buildDonutModel (and the
\* donuts of part_002 and part_003) show the clamped one, '100% used'.
C7_ArcClampedTextPerRevision ==
    AboveOne =>
        /\ ArcRatioOf = One
        /\ rev = "limit" =>
              /\ BadgeOf.label = "%"
              /\ IsRoundedPercent(BadgeOf.n, RatioOf)
              /\ BadgeOf.n > 100
        /\ rev # "limit" => BadgeOf = PctUsed(100)

\* The limit revision at ratio 1.5: arc ratio 1, text 150%.
C7_Witness ==
    /\ rev = "limit" /\ Rendered /\ Present(RatioOf)
    /\ NumEq(RatioOf, <<3, 2>>)
    /\ ArcRatioOf = One
    /\ BadgeOf = Pct(150)

TierOf(text) ==
    CASE text = "OK" -> 0
      [] text = "WARNING" -> 1
      [] text = "CRITICAL" -> 2
      [] OTHER -> 3

\* The status of the fixed-boundary policy for a defined ratio n/d.
FixedBoundaryStatus(x) ==
    IF 10 * x[1] >= 9 * x[2] THEN "CRITICAL"
    ELSE IF 10 * x[1] >= 7 * x[2] THEN "WARNING"
    ELSE "OK"

FixedBoundaryColor(x) ==
    IF 10 * x[1] >= 9 * x[2] THEN Str("#c9190b")
    ELSE IF 10 * x[1] >= 7 * x[2] THEN Str("#f0ab00")
    ELSE Str("#3e8635")

C8_Boundaries ==
    (rev = "limit" /\ Rendered /\ Present(RatioOf)) =>
        /\ call.out.donut.statusText = FixedBoundaryStatus(RatioOf)
        /\ call.out.donut.color = FixedBoundaryColor(RatioOf)
        /\ call.out.donut.statusColor = FixedBoundaryColor(RatioOf)

C8_Monotonic ==
    (/\ rev = "limit" /\ Rendered /\ Present(RatioOf)
     /\ Present(call'.out.m.ratio)
     /\ ~Lt(call'.out.m.ratio, RatioOf))
        => TierOf(call.out.donut.statusText) <= TierOf(call'.out.donut.statusText)

\* C8: under the fixed-boundary policy a defined ratio >= 0.9 is CRITICAL,
\* a ratio in [0.7, 0.9) is WARNING and a ratio < 0.7 is OK (status text
\* and color), and from one render to the next the tier never decreases
\* when the ratio does not decrease.
C8_FixedBoundaryPolicy == []C8_Boundaries /\ [][C8_Monotonic]_vars

\* The boundary 0.9 itself is CRITICAL.
C8_Witness ==
    /\ rev = "limit" /\ Rendered /\ Present(RatioOf)
    /\ NumEq(RatioOf, <<9, 10>>)
    /\ call.out.donut.statusText = "CRITICAL"

\* The thresholds and colors in force: the configured ones, or the defaults.
RedBelowInForce ==
    IF settings.thresholds = Null \/ settings.thresholds.redBelow = Null
    THEN <<1, 10>> ELSE settings.thresholds.redBelow
YellowBelowInForce ==
    IF settings.thresholds = Null \/ settings.thresholds.yellowBelow = Null
    THEN <<1, 2>> ELSE settings.thresholds.yellowBelow
ColorInForce(field, default) ==
    IF settings.colors = Null \/ settings.colors[field] = Null
    THEN Str(default) ELSE settings.colors[field]
GreenInForce == ColorInForce("green", "#3E8635")
YellowInForce == ColorInForce("yellow", "#F0AB00")
RedInForce == ColorInForce("red", "#C9190B")

InvertedTier(x) ==
    IF Lt(x, RedBelowInForce) THEN RedInForce
    ELSE IF Lt(x, YellowBelowInForce) THEN YellowInForce
    ELSE GreenInForce

\* The ratio brought into [0, 1].
Clamped(x) == IF x[1] < 0 THEN Zero ELSE IF x[1] > x[2] THEN One ELSE x

ThresholdColorsOn ==
    rev = "request" /\ Rendered /\ settings.enableThresholdColors = <<TRUE>>
    /\ Present(RatioOf)

\* C9 as stated: with threshold colors enabled getDonutColor returns red
\* when ratio < redBelow, yellow when redBelow <= ratio < yellowBelow and
\* green otherwise, for every defined finite ratio.
C9_TierOfRatio ==
    ThresholdColorsOn => call.out.m.color = InvertedTier(RatioOf)

\* C9 amended: with threshold colors enabled getDonutColor returns red when
\* clamp01(ratio) < redBelow, yellow when redBelow <= clamp01(ratio) <
\* yellowBelow and green otherwise; for every ratio >= 0 that is the tier of
\* the ratio itself, and the green tier has no upper bound.
C9_TierOfClampedRatio ==
    ThresholdColorsOn =>
        /\ call.out.m.color = InvertedTier(Clamped(RatioOf))
        /\ RatioOf[1] >= 0 => call.out.m.color = InvertedTier(RatioOf)
        /\ (Ge(RatioOf, One) /\ ~Lt(One, YellowBelowInForce)) =>
              call.out.m.color = GreenInForce

\* Ratio 1.20 under the default thresholds: green.
C9_Witness ==
    /\ ThresholdColorsOn
    /\ NumEq(RatioOf, <<6, 5>>)
    /\ RedBelowInForce = <<1, 10>> /\ YellowBelowInForce = <<1, 2>>
    /\ call.out.m.color = GreenInForce
    /\ GreenInForce # YellowInForce /\ GreenInForce # RedInForce

\* C10: when enableThresholdColors is not true, the color is the configured
\* green for every ratio and every threshold configuration (the default
\* green when the request revision finds none configured).
C10_DisabledIsGreen ==
    (Rendered /\ settings # Null /\ settings.enableThresholdColors # <<TRUE>>) =>
        /\ rev = "request" =>
              /\ call.out.m.color = GreenInForce
              /\ call.out.donut.ringColor = GreenInForce
        /\ (rev = "part_002" /\ settings.colors # Null) =>
              call.out.donut.ringColor = settings.colors.green

\* Disabled, with a ratio below redBelow: green all the same.
C10_Witness ==
    /\ rev = "request" /\ Rendered
    /\ settings.enableThresholdColors = <<FALSE>>
    /\ Present(RatioOf) /\ Lt(RatioOf, RedBelowInForce)
    /\ call.out.m.color = GreenInForce
    /\ GreenInForce # RedInForce

\* The color the documented defaults give: that of the tier of the clamped
\* ratio when the thresholds apply, the green one otherwise.
ColorWithDefaults(applies, x) ==
    IF applies THEN InvertedTier(Clamped(x)) ELSE GreenInForce

\* C11: for every settings document with any of thresholds.redBelow,
\* thresholds.yellowBelow, colors.green, colors.yellow, colors.red or their
\* parent objects missing, the color derivation (getDonutColor of the
\* request revision and of part_002) does not fail and gives the color it
\* would give with the documented default in place of each missing field.
C11_MissingFieldsDefault ==
    (Rendered /\ rev \in SettingsRevisions) =>
        LET applies == settings.enableThresholdColors = <<TRUE>>
                       /\ Present(RatioOf)
        IN  /\ call.out.donut.ringColor # TypeError
            /\ call.out.donut.ringColor = ColorWithDefaults(applies, RatioOf)

\* part_002 rendered a donut with a settings document without colors.
C11_Witness ==
    /\ rev = "part_002" /\ Rendered
    /\ settings.colors = Null
    /\ call.out.donut.ringColor = TypeError

\* x = max(0, 1 - y), for finite x and y, without the operators of the model.
IsOverReservation(x, y) ==
    IF y[1] >= y[2] THEN x[1] = 0
    ELSE x[1] * y[2] + y[1] * x[2] = x[2] * y[2]

InUnitInterval(x) == x[1] >= 0 /\ x[1] <= x[2]

OverReservedRevisions == {"request", "part_002", "part_003"}

C12_Fraction ==
    /\ Present(RatioOf) <=> Present(call.out.m.overReserved)
    /\ Present(RatioOf) <=> call.out.donut.overReservedText # NA
    /\ Present(RatioOf) =>
          /\ Finite(call.out.m.overReserved)
          /\ IsOverReservation(call.out.m.overReserved, RatioOf)
          /\ Ge(RatioOf, One) => call.out.m.overReserved[1] = 0
          /\ IsRoundedPercent(call.out.donut.overReservedText.n,
                              call.out.m.overReserved)

\* C12 as stated: the over-reserved fraction equals max(0, 1 - ratio)
\* whenever the ratio is defined, so it lies in [0, 1] and is 0 for every
\* ratio >= 1; it is undefined (rendered 'N/A') exactly when the ratio is.
C12_OverReservedInUnitInterval ==
    (Rendered /\ rev \in OverReservedRevisions) =>
        /\ C12_Fraction
        /\ Present(RatioOf) => InUnitInterval(call.out.m.overReserved)

\* C12 amended: the over-reserved fraction equals max(0, 1 - ratio) whenever
\* the ratio is defined and is undefined (rendered 'N/A') exactly when the
\* ratio is; it is 0 for every ratio >= 1, lies in [0, 1] for every ratio
\* >= 0, and exceeds 1 for a negative ratio.
C12_OverReservedFloorOnly ==
    (Rendered /\ rev \in OverReservedRevisions) =>
        /\ C12_Fraction
        /\ (Present(RatioOf) /\ RatioOf[1] >= 0) =>
              InUnitInterval(call.out.m.overReserved)
        /\ (Present(RatioOf) /\ RatioOf[1] < 0) =>
              Gt(call.out.m.overReserved, One)

\* Ratio 0.30: over-reserved 0.70, rendered 70%.
C12_Witness ==
    /\ rev = "request" /\ Rendered /\ Present(RatioOf)
    /\ NumEq(RatioOf, <<3, 10>>)
    /\ NumEq(call.out.m.overReserved, <<7, 10>>)
    /\ call.out.donut.overReservedText = Pct(70)

---------------------------------------------------------------------------
(* Properties of the parser, checked under SpecParse                       *)

Parsed == call # NoCall

\* The sample strings that are the text of a finite number.
NumericSamples == {"-1", "0", "1", "2"}

\* A result entry with a finite numeric sample and a container name that
\* is neither empty nor 'POD'.
WellFormed(r) ==
    /\ r # Null
    /\ r.value # Null /\ r.value[1] \in NumericSamples
    /\ r.metric # Null /\ r.metric.container # Null
    /\ r.metric.container[1] \notin {"", "POD"}

\* C13: parsePrometheus does not throw on entries with missing or malformed
\* fields; every point it returns has a finite value and a container name
\* that is not empty and not 'POD'; the entries with a missing, NaN,
\* non-numeric or infinite sample, or with an empty or 'POD' container, are
\* dropped: the points returned are those of the well-formed entries.
C13_MalformedDropped ==
    Parsed =>
        LET results == ResultsOf(resp)
            kept == {i \in 1..Len(results) : WellFormed(results[i])}
        IN  /\ \A i \in 1..Len(call.out) :
                  /\ Finite(call.out[i].value)
                  /\ call.out[i].container \notin {"", "POD"}
            /\ Len(call.out) = Cardinality(kept)

\* An entry whose sample is the empty string came out as a point of value 0.
C13_Witness ==
    /\ Parsed
    /\ resp = Response(<<[metric |-> [container |-> Str("app")],
                          value |-> Str("")]>>)
    /\ Len(call.out) = 1
    /\ call.out[1].container = "app"
    /\ call.out[1].value = Zero

---------------------------------------------------------------------------
(* Properties of the widget with its polls, checked under SpecPoll         *)

TheView == View(rev, poll, rows)
AnyFailed == \E q \in DOMAIN poll : poll[q].error
AnyLoading == \E q \in DOMAIN poll : poll[q].loading
Succeeded(q) == ~poll[q].error /\ ~poll[q].loading
AllSucceeded == \A q \in DOMAIN poll : Succeeded(q)
CardShown(c) ==
    \E i \in 1..Len(TheView.rowsShown) : TheView.rowsShown[i].container = c
CardOf(c) ==
    TheView.rowsShown[CHOOSE i \in 1..Len(TheView.rowsShown) :
                          TheView.rowsShown[i].container = c]

\* C15 as stated: whenever the fetch of at least one series has failed the
\* view shows 'Prometheus query error', also when other series succeeded
\* and rows are displayed.
C15_ErrorAlwaysSurfaced == AnyFailed => TheView.errorShown

\* C15 amended: the limit revision, part_003 and the request revision show
\* 'Prometheus query error' exactly when at least one fetch has failed and
\* the rows are empty; when rows exist the error is not shown. part_002
\* never shows it.
C15_ErrorSurfacedWithoutRows ==
    /\ rev # "part_002" =>
          (TheView.errorShown <=> (AnyFailed /\ Len(rows) = 0))
    /\ rev = "part_002" => ~TheView.errorShown

\* A query failed, another one delivered a container: the card is shown,
\* the error is not.
C15_Witness ==
    /\ rev = "request" /\ AnyFailed /\ ~AnyLoading
    /\ Len(TheView.rowsShown) > 0
    /\ ~TheView.errorShown

\* Container c qualifies for display by the series that succeeded.
QualifiesBySucceeded(c) ==
    \/ \E q \in CurrentQueries : Succeeded(q) /\ HasEntry(q, c)
    \/ \E q \in PeakQueries :
          /\ Succeeded(q) /\ HasEntry(q, c)
          /\ rev = "part_003" \/ ValueIn(q, c)[1] > 0
    \/ /\ rev = "request"
       /\ \E q \in {"ramRequest", "cpuRequest"} :
             Succeeded(q) /\ HasEntry(q, c) /\ ValueIn(q, c)[1] > 0

\* C16: when some fetches failed, others succeeded and none is loading,
\* every container that qualifies by the series that succeeded has a card,
\* whose fields are the values of the succeeded series and are null for
\* every failed series.
C16_PartialFailureReconciled ==
    (rev \in Revisions /\ AnyFailed /\ ~AnyLoading) =>
        \A c \in SeriesContainers :
            QualifiesBySucceeded(c) =>
                /\ CardShown(c)
                /\ \A q \in DOMAIN poll :
                      /\ poll[q].error => RowField(CardOf(c), q) = Null
                      /\ (Succeeded(q) /\ HasEntry(q, c)) =>
                            RowField(CardOf(c), q) = ValueIn(q, c)

\* The request series failed, the peak series delivered a container.
C16_Witness ==
    /\ rev = "request" /\ ~AnyLoading
    /\ poll["ramRequest"].error
    /\ Succeeded("ramMax") /\ HasEntry("ramMax", "app")
    /\ CardShown("app")
    /\ CardOf("app").ramRequestGiB = Null
    /\ CardOf("app").ramMaxGiB = Num(2)

MessageRevisions == {"request", "limit", "part_003"}

\* C17 as stated: when every query succeeded and no container qualifies the
\* view shows 'No data available' and no error message; when a query
\* failed the view does not show 'No data available'.
C17_NoDataNeverOnError ==
    rev \in MessageRevisions =>
        /\ (AllSucceeded /\ Len(rows) = 0) =>
              (TheView.noDataShown /\ ~TheView.errorShown)
        /\ AnyFailed => ~TheView.noDataShown

\* C17 amended: when every query succeeded and no container qualifies the
\* view shows 'No data available' and no error message; when a query
\* failed, none is loading and no container qualifies, the view shows
\* 'Prometheus query error' together with 'No data available': the two
\* states differ by the error line only.
C17_NoDataWithErrorLine ==
    rev \in MessageRevisions =>
        /\ (AllSucceeded /\ Len(rows) = 0) =>
              (TheView.noDataShown /\ ~TheView.errorShown)
        /\ (AnyFailed /\ ~AnyLoading /\ Len(rows) = 0) =>
              (TheView.noDataShown /\ TheView.errorShown)
        /\ TheView.noDataShown => (TheView.errorShown <=> AnyFailed)

\* Every query answered an empty result: 'No data available', no error.
C17_Witness ==
    /\ rev = "request" /\ AllSucceeded
    /\ \A q \in DOMAIN resp : resp[q] = Response(<<>>)
    /\ TheView.noDataShown /\ ~TheView.errorShown

\* C18 as stated: the rows rendered are reconciled from payloads of one
\* polling tick: the payloads held for two queries are never of different
\* ticks.
C18_SameTick ==
    \A q, o \in DOMAIN resp :
        (resp[q] # Null /\ resp[o] # Null) => poll[q].tick = poll[o].tick

C18_Joined ==
    rev \in Revisions =>
        \A q \in DOMAIN resp : \A c \in SeriesContainers :
            (HasEntry(q, c) /\ Shown(c)) =>
                RowField(RowOf(c), q) = ValueIn(q, c)

C18_SiblingsKept ==
    \A q \in DOMAIN poll :
        poll'[q].tick # poll[q].tick =>
            \A o \in DOMAIN resp \ {q} :
                resp'[o] = resp[o] /\ poll'[o] = poll[o]

\* C18 amended: the polls are independent; the answer of one query replaces
\* the payload of that query only, and the rows join the latest payload of
\* every query whatever its tick, so a payload of tick n of one query is
\* joined with the payload of an earlier tick of a lagging sibling.
C18_LatestPayloadOfEachQuery == []C18_Joined /\ [][C18_SiblingsKept]_vars

\* A card joins the peak of tick 2 with the request of tick 1.
C18_Witness ==
    /\ rev = "request" /\ ~AnyLoading
    /\ poll["ramMax"].tick = 2 /\ poll["ramRequest"].tick = 1
    /\ CardShown("app")
    /\ CardOf("app").ramMaxGiB # Null
    /\ CardOf("app").ramRequestGiB # Null

\* The raw payload held for q has an entry for container c.
InPayload(q, c) ==
    \E i \in 1..Len(ResultsOf(resp[q])) :
        ResultsOf(resp[q])[i].metric.container = Str(c)

C19_LatestOnly ==
    /\ rows = RenderPoll(rev, resp)
    /\ \A c \in SeriesContainers :
          (\A q \in DOMAIN resp : ~InPayload(q, c)) => ~Shown(c)

C19_TickStep ==
    /\ settings' = settings
    /\ rows' = RenderPoll(rev, resp')

\* C19: after any sequence of ticks the rows are a function of the latest
\* payload of each query only: a container found in none of the latest
\* payloads has no row, whatever earlier ticks held; and no tick changes
\* the settings.
C19_RowsOfLatestPayloads == []C19_LatestOnly /\ [][C19_TickStep]_vars

\* A query is at its second tick, the latest payloads hold no container
\* and the rows are empty.
C19_Witness ==
    /\ ~AnyLoading
    /\ \E q \in DOMAIN poll : poll[q].tick = 2 /\ resp[q] = Response(<<>>)
    /\ \A q \in DOMAIN resp : \A c \in SeriesContainers : ~InPayload(q, c)
    /\ rows = <<>>

\* C20: in every render the rows hold at most one row per container name,
\* also when a series holds a container twice and when a container is
\* found in several series.
C20_OneRowPerContainer ==
    \A i, j \in 1..Len(rows) :
        rows[i].container = rows[j].container => i = j

\* The limit revision: the container twice in the limit series and once in
\* the usage series, in one row.
C20_Witness ==
    /\ rev = "limit"
    /\ Len(ResultsOf(resp["limit"])) = 2
    /\ Len(ResultsOf(resp["usage"])) = 1
    /\ Len(rows) = 1
    /\ rows[1].limitGiB # Null /\ rows[1].usageGiB # Null

---------------------------------------------------------------------------
(* Properties of the query builder, checked under SpecQuery                *)

Built == call.out # Null

\* The revisions that select pods by name.
DirectRevisions == {"part_002", "part_003"}

\* A regular expression made of characters, escaped characters, dots and
\* stars, matched against the whole of s, as a label matcher is.  A star
\* without an atom and a backslash without a character match nothing.
RECURSIVE RegexMatch(_, _)
RegexMatch(re, s) ==
    IF re = <<>> THEN s = <<>>
    ELSE LET esc == Head(re) = "\\"
             width == IF esc THEN 2 ELSE 1
         IN  IF Len(re) < width \/ Head(re) = "*" THEN FALSE
             ELSE LET lit == re[width]
                      any == ~esc /\ Head(re) = "."
                      rest == SubSeq(re, width + 1, Len(re))
                      starred == rest # <<>> /\ Head(rest) = "*"
                      fits(c) == any \/ c = lit
                  IN  IF starred
                      THEN \/ RegexMatch(Tail(rest), s)
                           \/ /\ s # <<>>
                              /\ fits(Head(s))
                              /\ RegexMatch(re, Tail(s))
                      ELSE /\ s # <<>>
                           /\ fits(Head(s))
                           /\ RegexMatch(rest, Tail(s))

\* e is the name n with a backslash before each regex metacharacter and
\* every other character as it is.
RECURSIVE IsEscaped(_, _)
IsEscaped(e, n) ==
    IF n = <<>> THEN e = <<>>
    ELSE IF Head(n) \in RegexMeta
         THEN /\ Len(e) >= 2
              /\ e[1] = "\\"
              /\ e[2] = Head(n)
              /\ IsEscaped(SubSeq(e, 3, Len(e)), Tail(n))
         ELSE /\ e # <<>>
              /\ Head(e) = Head(n)
              /\ IsEscaped(Tail(e), Tail(n))

Suffix == <<"-", ".", "*">>
NamePart(podRegex) == SubSeq(podRegex, 1, Len(podRegex) - Len(Suffix))

\* C21: under direct pod-name matching the pod matcher of every query is
\* the escaped workload name followed by '-.*': each regex metacharacter of
\* the name is preceded by a backslash, every other character is unchanged,
\* and as a regular expression the name part matches the workload name and
\* no other string.
C21_EscapedLiteralMatcher ==
    (rev \in DirectRevisions /\ Built) =>
        LET re == call.out.podRegex
            name == call.workloadName
        IN  /\ Len(re) >= Len(Suffix)
            /\ SubSeq(re, Len(re) - Len(Suffix) + 1, Len(re)) = Suffix
            /\ IsEscaped(NamePart(re), name)
            /\ \A s \in WorkloadNames :
                   RegexMatch(NamePart(re), s) <=> s = name
            /\ \A f \in DOMAIN call.out \ {"podRegex"} :
                   /\ call.out[f][1].matchers[2].label = "pod"
                   /\ call.out[f][1].matchers[2].op = "=~"
                   /\ call.out[f][1].matchers[2].text = Quoted(re)

\* part_002 has built the matcher of the workload 'a.': a\.-.*
C21_Witness ==
    /\ rev = "part_002"
    /\ Built
    /\ call.workloadName = <<"a", ".">>
    /\ call.out.podRegex = <<"a", "\\", ".", "-", ".", "*">>

\* The label matchers of the queries built.
AllMatchers ==
    LET out == call.out
    IN  UNION { UNION { { out[f][i].matchers[j] :
                            j \in DOMAIN out[f][i].matchers } :
                        i \in DOMAIN out[f] } :
                f \in DOMAIN out \ {"podRegex"} }

\* Where the double-quoted literal read from position i of text ends: at
\* the first double quote that no backslash escapes; 0 when there is none.
RECURSIVE ClosingQuote(_, _)
ClosingQuote(text, i) ==
    IF i > Len(text) THEN 0
    ELSE IF text[i] = "\\" THEN ClosingQuote(text, i + 2)
    ELSE IF text[i] = "\"" THEN i
    ELSE ClosingQuote(text, i + 1)

\* The literal of a matcher ends at the quote the template wrote after the
\* value, and nowhere before or after it.
Confined(matcher) ==
    /\ Head(matcher.text) = "\""
    /\ ClosingQuote(matcher.text, 2) = Len(matcher.text)

\* C22: for every namespace and workload name, the empty string and names
\* with a double quote or a backslash included, every value interpolated
\* by buildQueries stays inside the quoted literal of its label matcher:
\* the literal ends at the closing quote of the template.
C22_InterpolatedValuesConfined ==
    Built => \A matcher \in AllMatchers : Confined(matcher)

\* The request revision has built its queries for a namespace that is one
\* double quote: the literal namespace="" ends before the quote of the
\* template.
C22_Witness ==
    /\ rev = "request"
    /\ Built
    /\ call.namespace = <<"\"">>
    /\ call.out.ramRequestQuery[1].matchers[2].label = "namespace"
    /\ call.out.ramRequestQuery[1].matchers[2].text = <<"\"", "\"", "\"">>
    /\ ClosingQuote(call.out.ramRequestQuery[1].matchers[2].text, 2) = 2

\* The workloads of a namespace: names of lower-case letters, '-' and '.'
\* of up to one character more than the workload of the tab; and the pods
\* of a workload: its name, '-', and a generated suffix (a hash or an
\* ordinal, or a replica-set hash, '-', and a pod hash).
NamespaceWorkloads == UNION {[1..k -> {"a", "-", "."}] : k \in 0..(MaxName + 1)}
PodSuffixes == {<<"a">>, <<"a", "-", "a">>}
PodNamesOf(workload) == {workload \o <<"-">> \o t : t \in PodSuffixes}

HasPrefix(s, p) == Len(s) >= Len(p) /\ SubSeq(s, 1, Len(p)) = p

Selected(pod) == RegexMatch(call.out.podRegex, pod)

\* C29 as stated: under direct pod-name matching the matcher built for
\* workload W selects no pod of another workload W' of the namespace.
C29_OnlyOwnPods ==
    (rev \in DirectRevisions /\ Built) =>
        \A other \in NamespaceWorkloads \ {call.workloadName} :
            \A pod \in PodNamesOf(other) : ~Selected(pod)

\* C29, what the matcher selects: exactly the pods whose name begins with
\* W followed by '-', which are every pod of W and, of another workload,
\* the pods whose name begins so, as those of 'api-gateway' do for 'api'.
C29_PodsWithNamePrefix ==
    (rev \in DirectRevisions /\ Built) =>
        /\ \A pod \in PodNamesOf(call.workloadName) : Selected(pod)
        /\ \A other \in NamespaceWorkloads :
               \A pod \in PodNamesOf(other) :
                   Selected(pod) <=> HasPrefix(pod, call.workloadName \o <<"-">>)

\* part_003 has built the matcher of the workload 'a'; it selects the pod
\* 'a-a-a' of the workload 'a-a'.
C29_Witness ==
    /\ rev = "part_003"
    /\ Built
    /\ call.workloadName = <<"a">>
    /\ call.out.podRegex = <<"a", "-", ".", "*">>
    /\ <<"a", "-", "a", "-", "a">> \in PodNamesOf(<<"a", "-", "a">>)
    /\ Selected(<<"a", "-", "a", "-", "a">>)

---------------------------------------------------------------------------
(* Further properties of the derivation, checked under SpecDerive          *)

\* C23: the derivation is deterministic.  Every call of buildDonutModel
\* leaves the settings as they are and yields the model that its inputs
\* and the settings determine, whatever was derived before: a call with
\* the inputs of the call before it yields the same model again, and the
\* model of a call is the one a first call with these inputs yields.
C23_SameInputsSameModel ==
    (/\ rev = "request" /\ call.out # Null /\ call'.out # Null
     /\ call'.maxVal = call.maxVal
     /\ call'.requestVal = call.requestVal)
        => call'.out.m = call.out.m

C23_NoHiddenState ==
    (rev = "request" /\ call'.out # Null)
        => /\ settings' = settings
           /\ call'.out.m = buildDonutModel(call'.maxVal, call'.requestVal)

DotDrawn == call.out.donut.dot
ArcDrawn == call.out.donut.arc
TrackOnly == ~DotDrawn /\ ~ArcDrawn
ClampIsZero == Present(RatioOf) /\ NumEq(Clamped(RatioOf), Zero)
ClampIsPositive == Present(RatioOf) /\ Gt(Clamped(RatioOf), Zero)
ArcOfClampedRatio ==
    ArcDrawn /\ ~DotDrawn /\ NumEq(ArcRatioOf, Clamped(RatioOf))

\* C24 as stated: in every revision the gauge draws the track alone when
\* the ratio is undefined or the baseline absent, a single dot when the
\* clamped ratio is 0, and an arc of circumference * clamp01(ratio) when
\* the clamped ratio is > 0.
C24_TrackDotOrArc ==
    Rendered =>
        /\ (~Present(RatioOf) \/ NoBaseline) => TrackOnly
        /\ ClampIsZero => (DotDrawn /\ ~ArcDrawn)
        /\ ClampIsPositive => ArcOfClampedRatio

\* C24, amended: the same in the request revision, part_002 and part_003;
\* the gauge of the limit revision has no dot and draws the track alone
\* when the clamped ratio is 0.
C24_TrackDotOrArcPerRevision ==
    Rendered =>
        /\ (~Present(RatioOf) \/ NoBaseline) => TrackOnly
        /\ ClampIsZero =>
              IF rev = "limit" THEN TrackOnly ELSE DotDrawn /\ ~ArcDrawn
        /\ ClampIsPositive => ArcOfClampedRatio

\* The limit revision rendered a container that used 0 GiB of a limit of
\* 1 GiB: the ratio is 0 and nothing is drawn on the track.
C24_Witness ==
    /\ rev = "limit"
    /\ Rendered
    /\ Present(RatioOf) /\ NumEq(RatioOf, Zero)
    /\ call.out.m.limitGiB = One
    /\ call.out.donut.showProgress
    /\ TrackOnly

\* The revisions whose badge reads 'No request'.
RequestRevisions == {"request", "part_002"}

\* C26: the badge reads 'No request' only when the request is absent, not
\* finite or <= 0; a container with a positive, finite request and no peak
\* sample is not labelled 'No request'.
C26_NoRequestOnlyWithoutRequest ==
    (Rendered /\ rev \in RequestRevisions /\ BadgeOf = NoRequest)
        => (NoBaseline \/ ~Finite(call.requestVal))

\* The request revision rendered a container with a request of 2 and no
\* peak sample: the model has a baseline, and the badge reads 'No request'.
C26_Witness ==
    /\ rev = "request"
    /\ Rendered
    /\ call.requestVal = Num(2)
    /\ call.maxVal = Null
    /\ call.out.m.hasBaseline
    /\ call.out.m.badgeText = NoRequest
    /\ call.out.donut.badgeText = NoRequest

\* The tier of x by the thresholds and colors a revision reads: the
\* request revision with its defaults, part_002 with the raw fields.
RawTier(x) ==
    IF LtOpt(x, settings.thresholds.redBelow) THEN RawColor("red")
    ELSE IF LtOpt(x, settings.thresholds.yellowBelow) THEN RawColor("yellow")
    ELSE RawColor("green")
TierFor(x) == IF rev = "request" THEN InvertedTier(x) ELSE RawTier(x)
ColorOf ==
    IF rev = "request" THEN call.out.m.color ELSE call.out.donut.ringColor

\* The thresholds a revision compares with, those it finds undefined left
\* out.
ThresholdsRead ==
    IF rev = "request" THEN {RedBelowInForce, YellowBelowInForce}
    ELSE {settings.thresholds.redBelow, settings.thresholds.yellowBelow}
            \ {Null}

\* A ratio was tiered: threshold colors are on, the ratio is defined and
\* the thresholds lie in [0, 1].
Tiered ==
    /\ Rendered
    /\ rev \in RequestRevisions
    /\ settings.enableThresholdColors = <<TRUE>>
    /\ settings.thresholds # Null \/ rev = "request"
    /\ Present(RatioOf) /\ Finite(RatioOf)
    /\ \A t \in ThresholdsRead : InUnitInterval(t)

\* C27 as stated: getDonutColor compares clamp01(ratio) with the
\* thresholds, and for thresholds in [0,1] and every finite ratio, negative
\* ones and ones above 1 included, the tier is that of the unclamped ratio.
C27_ClampKeepsTier ==
    Tiered =>
        /\ ColorOf = TierFor(Clamped(RatioOf))
        /\ TierFor(Clamped(RatioOf)) = TierFor(RatioOf)

\* C27, amended: the tier is that of clamp01(ratio); it is the tier of the
\* unclamped ratio for every ratio >= 0, and for a negative ratio when no
\* threshold read is 0.
C27_ClampKeepsTierUnlessZeroThreshold ==
    Tiered =>
        /\ ColorOf = TierFor(Clamped(RatioOf))
        /\ (RatioOf[1] >= 0 \/ \A t \in ThresholdsRead : t[1] > 0)
              => TierFor(Clamped(RatioOf)) = TierFor(RatioOf)

\* part_002 with redBelow = 0 and yellowBelow = 1 tiered the ratio -1:
\* yellow, where the unclamped ratio is below redBelow.
C27_Witness ==
    /\ rev = "part_002"
    /\ Tiered
    /\ settings.thresholds = [redBelow |-> Zero, yellowBelow |-> One]
    /\ settings.colors # Null /\ settings.colors.yellow # Null
    /\ settings.colors.yellow # settings.colors.red
    /\ NumEq(RatioOf, Num(-1))
    /\ ColorOf = settings.colors.yellow
    /\ TierFor(RatioOf) = settings.colors.red

---------------------------------------------------------------------------
(* Further properties of the reconciler, checked under Spec                *)

\* A payload that is missing: undefined, without data, without data.result.
MissingPayloads == {Null, [data |-> Null], [data |-> [result |-> Null]]}

Lagging(q) == resp[q] = Null

\* C25: a query that has delivered no payload, or a payload without
\* data.result, parses to the empty list; the rows are those reconciled
\* from the payloads of the other queries, the same whichever missing
\* payload the lagging query holds, and in every row the field of the
\* lagging series is absent.
C25_MissingPayloadTolerated ==
    /\ \A p \in MissingPayloads : parsePrometheus(p) = <<>>
    /\ \A q \in DOMAIN resp :
           Lagging(q) =>
               /\ \A p \in MissingPayloads :
                      Render(rev, [resp EXCEPT ![q] = p]) = rows
               /\ \A i \in 1..Len(rows) : RowField(rows[i], q) = Null
               /\ \A c \in SeriesContainers :
                      Shown(c) => \E o \in DOMAIN resp \ {q} : HasEntry(o, c)

\* One query lags, another delivered a container: the container has a row
\* with the field of the delivered series and without the lagging one.
C25_Witness ==
    \E q, o \in DOMAIN resp :
        /\ Lagging(q)
        /\ ~Lagging(o)
        /\ Len(rows) = 1
        /\ RowField(rows[1], o) = Num(2)
        /\ RowField(rows[1], q) = Null

\* a sorts before b: the comparison of Array.prototype.sort on the names of
\* the model.
SortsBefore(a, b) ==
    <<a, b>> \in {<<"POD", "app">>, <<"POD", "sidecar">>, <<"app", "sidecar">>}

\* The entries of a payload in another order.
EntryOrders(n) ==
    {f \in [1..n -> 1..n] : \A i, j \in 1..n : f[i] = f[j] => i = j}
Permuted(result, f) == [i \in 1..Len(result) |-> result[f[i]]]

\* No series holds a container twice.
NoDuplicates ==
    \A q \in DOMAIN resp : \A c \in SeriesContainers : Occurrences(q, c) <= 1

\* C30: the rows are in ascending order of container name, and when no
\* series holds a container twice the rows (which containers, in which
\* order, with which field values) are the same for every order of the
\* entries inside a payload.
C30_SortedAndOrderInsensitive ==
    /\ \A i, j \in 1..Len(rows) :
           i < j => SortsBefore(rows[i].container, rows[j].container)
    /\ NoDuplicates =>
           \A q \in DOMAIN resp :
               \A f \in EntryOrders(Len(ResultsOf(resp[q]))) :
                   Render(rev, [resp EXCEPT
                                  ![q] = Response(Permuted(ResultsOf(resp[q]), f))])
                       = rows

\* A payload lists sidecar before app; the rows are app, then sidecar.
C30_Witness ==
    /\ NoDuplicates
    /\ \E q \in DOMAIN resp :
           /\ Len(ResultsOf(resp[q])) = 2
           /\ ResultsOf(resp[q])[1].metric.container = Str("sidecar")
           /\ ResultsOf(resp[q])[2].metric.container = Str("app")
    /\ Len(rows) = 2
    /\ rows[1].container = "app"
    /\ rows[2].container = "sidecar"

---------------------------------------------------------------------------
(* Further properties of the widget and its polls, checked under SpecPoll  *)

LoadingOnly ==
    /\ TheView.loadingShown
    /\ TheView.rowsShown = <<>>
    /\ ~TheView.noDataShown

====
